---- MODULE Spec2Model ----
(***************************************************************************)
(* Crawl service of App-Store-Scraper: the review pipeline orchestrator    *)
(* (crawl-service/main.py), the browser review collector                   *)
(* (crawl-service/crawlers/app_store_browser.py), the rating parsers of    *)
(* the collectors and the fetch-control RateLimiter                        *)
(* (crawl-service/utils/rate_limiter.py).                                  *)
(***************************************************************************)
EXTENDS Integers, Sequences, FiniteSets, TLC

\* Python's None, where an int may stand too: an integer outside every range
\* the model draws values from (TLC compares integers with integers only).
NoneV == 0 - 1000

Min(a, b) == IF a <= b THEN a ELSE b

\* The slice forgotten: the whole list.
TakeAll(s, n) == s

\* Python s[:n] for n >= 0.
Take(s, n) == SubSeq(s, 1, Min(n, Len(s)))

\* Python truthiness of an Optional[int]: None and 0 are falsy.
Truthy(x) == x # NoneV /\ x # 0

(***************************************************************************)
(* Bounds of the model.                                                    *)
(***************************************************************************)
\* Largest request.max_reviews drawn.
MaxCap == 3
\* Longest list the feed collector hands to the orchestrator.
MaxFeed == 2
\* Most review cards one DOM extraction returns.
MaxPage == 2

(***************************************************************************)
(* Reviews.  A review dict is modelled by the fields the pipeline reads:   *)
(* author, content (as the pair head = content[:100], tail = the rest),    *)
(* rating and, once tagged, source.                                        *)
(***************************************************************************)
Review(a, h, t, r) == [author |-> a, head |-> h, tail |-> t, rating |-> r]

\* The reviews the storefront and the feed can show in this model: two
\* reviews of one author with the same first 100 characters (one digest,
\* different fields), one of another author with the same content, one with
\* a different content.  A rating is 1..5 or None.
ReviewPool ==
    { Review("ann", "h1", "t1", 5), Review("ann", "h1", "t2", 1),
      Review("bob", "h1", "t1", NoneV), Review("ann", "h2", "t1", 3) }

\* The digest taken over the whole content instead of its first 100
\* characters.
DigestWholeContent(r) == <<r.author, r.head, r.tail>>

\* sha256(f"{author}:{content[:100]}").hexdigest()[:16]: a function of the
\* author and of the first 100 characters only, taken as collision free.
Digest(r) == <<r.author, r.head>>

\* An insertion-ordered dict is a sequence of [id, review] entries.
DictHas(d, k) == \E i \in 1..Len(d) : d[i].id = k

\* d[k] = v: a present key keeps its position and takes the new value.
DictSet(d, k, v) ==
    IF DictHas(d, k)
    THEN [i \in 1..Len(d) |-> IF d[i].id = k THEN [id |-> k, review |-> v] ELSE d[i]]
    ELSE Append(d, [id |-> k, review |-> v])

\* list(d.values())
Values(d) == [i \in 1..Len(d) |-> d[i].review]

Tag(r, s) == [author |-> r.author, head |-> r.head, tail |-> r.tail,
              rating |-> r.rating, source |-> s]

\* All sequences over S of length at most n.
SeqsUpTo(S, n) == UNION { [1..k -> S] : k \in 0..n }

VARIABLES
    pc,               \* position of the request handler
    request,          \* AppStoreReviewRequest
    rss_collected,    \* what the feed collector had gathered when its phase ended
    rss_outcome,      \* how the feed phase ended
    all_reviews,      \* the orchestrator's accumulator
    crawl,            \* locals of AppStoreBrowserCrawler.crawl_reviews
    browser_outcome,  \* how the browser phase ended
    browser_reviews,  \* what the browser phase handed to the orchestrator
    response          \* the HTTP response (status 0: none yet)

reviewVars == <<pc, request, rss_collected, rss_outcome, all_reviews, crawl,
                browser_outcome, browser_reviews, response>>

VARIABLES
    rating_in,        \* what a collector reads the rating of one review from
    rating_out        \* the review it constructs from that, if any

ratingVars == <<rating_in, rating_out>>

VARIABLES
    now,              \* datetime.utcnow(), in seconds
    global_requests,  \* RateLimiter._global_requests
    domain_requests,  \* RateLimiter._domain_requests
    semaphore,        \* free slots of RateLimiter._semaphore
    lock,             \* the task holding RateLimiter._lock, or Free
    backoff_until,    \* RateLimiter._backoff_until
    backoffs,         \* backoff() calls made
    lpc,              \* where each task is in crawl_page and acquire
    url,              \* the domain of the URL each task crawls
    wake,             \* the end of each sleeping task's asyncio.sleep
    calls,            \* crawl_page calls each task has completed
    recorded          \* every timestamp recorded, per scope

limiterVars == <<now, global_requests, domain_requests, semaphore, lock,
                 backoff_until, backoffs, lpc, url, wake, calls, recorded>>

VARIABLES
    memory_cache,     \* CacheManager._memory_cache
    table,            \* the rows of the durable table, by cache_key
    client,           \* whether a client was given
    utcnow,           \* datetime.utcnow(), in clock steps
    cache_last        \* the last CacheManager call and what it returned

cacheVars == <<memory_cache, table, client, utcnow, cache_last>>

VARIABLES
    fetch             \* one fetch_json call: its attempts and what it returned

fetchVars == <<fetch>>

VARIABLES
    stream            \* the locals of one scrape_reviews_streaming run

streamVars == <<stream>>

VARIABLES
    sweep

sweepVars == <<sweep>>

VARIABLES
    dive

diveVars == <<dive>>

VARIABLES
    comments

commentVars == <<comments>>

VARIABLES
    mw

mwVars == <<mw>>

VARIABLES
    web

webVars == <<web>>

VARIABLES
    site

siteVars == <<site>>

VARIABLES
    disk              \* the cache directory of the list crawlers and its last reader

diskVars == <<disk>>

VARIABLES
    managed           \* the browser contexts and tabs of the tasks using _managed_page

pageVars == <<managed>>

VARIABLES
    disc              \* the locals of one validate_subreddits call

discVars == <<disc>>

VARIABLES
    gate              \* the search sweep and its current _fetch_with_rate_limit call

gateVars == <<gate>>

VARIABLES
    accum             \* the pairing cache file and the threads saving into it

accumVars == <<accum>>

vars == <<reviewVars, ratingVars, limiterVars, cacheVars, fetchVars, streamVars, sweepVars, diveVars, commentVars, mwVars, webVars, siteVars, diskVars, pageVars, discVars, gateVars, accumVars>>

\* No request is being served.
IdleReviews ==
    /\ pc = "off"
    /\ request = [max_reviews |-> 1, min_rating |-> NoneV, max_rating |-> NoneV,
                  country |-> "us", multi_country |-> TRUE]
    /\ rss_collected = <<>>
    /\ rss_outcome = "none"
    /\ all_reviews = <<>>
    /\ crawl = [max_reviews |-> 0, min_rating |-> NoneV, max_rating |-> NoneV,
                countries_to_scrape |-> <<>>, country_index |-> 0,
                all_reviews |-> <<>>, scroll_attempt |-> 0, no_new_reviews_count |-> 0]
    /\ browser_outcome = "none"
    /\ browser_reviews = <<>>
    /\ response = [status |-> 0]

\* No RateLimiter is in use.
IdleLimiter ==
    /\ now = 0
    /\ global_requests = <<>>
    /\ domain_requests = <<>>
    /\ semaphore = 0
    /\ lock = 0
    /\ backoff_until = <<>>
    /\ backoffs = 0
    /\ lpc = <<>>
    /\ url = <<>>
    /\ wake = <<>>
    /\ calls = <<>>
    /\ recorded = <<>>

\* No CacheManager is in use.
IdleCache ==
    /\ memory_cache = <<>>
    /\ table = <<>>
    /\ client = FALSE
    /\ utcnow = 0
    /\ cache_last = [op |-> "off"]

\* No fetch_json call is in progress.
IdleFetch ==
    /\ fetch = [state |-> "off"]

\* No streaming scrape is running.
IdleStream ==
    /\ stream = [pc |-> "off"]

\* The browser collector's locale sweep, when another specification runs.
IdleSweep ==
    /\ sweep = [pc |-> "off"]

\* The deep-dive crawl, when another specification runs.
IdleDive ==
    /\ dive = [pc |-> "off"]

\* No comment tree is being fetched.
IdleComments ==
    /\ comments = [pc |-> "off"]

\* The middleware limiter is not in use.
IdleMiddleware ==
    /\ mw = [pc |-> "off"]

\* No website-crawl request is being served.
IdleWeb ==
    /\ web = [pc |-> "off"]

\* No website is being crawled.
IdleSite ==
    /\ site = [pc |-> "off"]

\* No cache file is being saved or loaded.
IdleFiles ==
    /\ disk = [pc |-> "off"]

\* No browser page is being acquired.
IdlePages ==
    /\ managed = [pc |-> "off"]

\* No community list is being validated.
IdleDiscover ==
    /\ disc = [pc |-> "off"]

\* No gated request is being made.
IdleGate ==
    /\ gate = [pc |-> "off"]

\* no accumulating save is running
IdleAccumulate ==
    /\ accum = [pc |-> "off"]

\* The review endpoint leaves the rest of the service alone.
OutsideReviews == UNCHANGED <<ratingVars, limiterVars, cacheVars, fetchVars, streamVars, sweepVars, diveVars,
                commentVars,
                mwVars,
                webVars,
                siteVars,
                diskVars,
                pageVars,
                discVars,
                gateVars,
                accumVars>>

\* The rating parsers leave the rest of the service alone.
OutsideRating == UNCHANGED <<reviewVars, limiterVars, cacheVars, fetchVars, streamVars, sweepVars, diveVars,
                commentVars,
                mwVars,
                webVars,
                siteVars,
                diskVars,
                pageVars,
                discVars,
                gateVars,
                accumVars>>

\* No rating is being parsed.
IdleRating ==
    /\ rating_in = [collector |-> "none"]
    /\ rating_out = [state |-> "off", rating |-> NoneV]

NoCrawl == [max_reviews |-> 0, min_rating |-> NoneV, max_rating |-> NoneV,
            countries_to_scrape |-> <<>>, country_index |-> 0,
            all_reviews |-> <<>>, scroll_attempt |-> 0, no_new_reviews_count |-> 0]

RatingOpts == {NoneV, 3}

InitReviews ==
    /\ pc = "phase1"
    /\ request \in [max_reviews : 1..MaxCap, min_rating : RatingOpts,
                    max_rating : {NoneV}, country : {"us"}, multi_country : {TRUE}]
    /\ rss_collected = <<>>
    /\ rss_outcome = "none"
    /\ all_reviews = <<>>
    /\ crawl = NoCrawl
    /\ browser_outcome = "none"
    /\ browser_reviews = <<>>
    /\ response = [status |-> 0]
    /\ IdleRating
    /\ IdleLimiter
    /\ IdleCache
    /\ IdleFetch
    /\ IdleStream
    /\ IdleDive
    /\ IdleSweep
    /\ IdleComments
    /\ IdleMiddleware
    /\ IdleWeb
    /\ IdleSite
    /\ IdleFiles
    /\ IdlePages
    /\ IdleDiscover
    /\ IdleGate
    /\ IdleAccumulate

\* for review in rss_reviews: all_reviews[digest] = review tagged rss_api
RECURSIVE InsertRss(_, _)
InsertRss(acc, revs) ==
    IF revs = <<>> THEN acc
    ELSE InsertRss(DictSet(acc, Digest(Head(revs)), Tag(Head(revs), "rss_api")), Tail(revs))

\* RssPhase, keeping on TimeoutError what the collector had gathered.
RssPhaseKeepsPartial ==
    /\ pc = "phase1"
    /\ \E collected \in SeqsUpTo(ReviewPool, MaxFeed),
          outcome \in {"returned", "timeout", "raised"} :
         /\ rss_collected' = collected
         /\ rss_outcome' = outcome
         /\ IF outcome = "raised"
            THEN /\ pc' = "done"
                 /\ response' = [status |-> 500]
                 /\ UNCHANGED all_reviews
            ELSE /\ pc' = "phase2"
                 /\ all_reviews' = InsertRss(all_reviews, collected)
                 /\ UNCHANGED response
    /\ UNCHANGED <<request, crawl, browser_outcome, browser_reviews>>
    /\ OutsideReviews

\* Phase 1: the feed collector under its 90 s budget, then the insertion of
\* what it returned.  The collector's result is an input; on TimeoutError
\* rss_reviews is the empty list; any other exception leaves the handler
\* through its outer except as HTTP 500.
RssPhase ==
    /\ pc = "phase1"
    /\ \E collected \in SeqsUpTo(ReviewPool, MaxFeed),
          outcome \in {"returned", "timeout", "raised"} :
         /\ rss_collected' = collected
         /\ rss_outcome' = outcome
         /\ IF outcome = "raised"
            THEN /\ pc' = "done"
                 /\ response' = [status |-> 500]
                 /\ UNCHANGED all_reviews
            ELSE /\ pc' = "phase2"
                 /\ all_reviews' = InsertRss(all_reviews,
                                       IF outcome = "timeout" THEN <<>> ELSE collected)
                 /\ UNCHANGED response
    /\ UNCHANGED <<request, crawl, browser_outcome, browser_reviews>>
    /\ OutsideReviews

\* BrowserGate with <= for <.
BrowserGateOffByOne ==
    /\ pc = "phase2"
    /\ IF Len(all_reviews) <= request.max_reviews
       THEN /\ pc' = "enter"
            /\ UNCHANGED browser_outcome
       ELSE /\ pc' = "finish"
            /\ browser_outcome' = "skipped"
    /\ UNCHANGED <<request, rss_collected, rss_outcome, all_reviews, crawl,
                   browser_reviews, response>>
    /\ OutsideReviews

\* Line 413: the browser phase runs only while the accumulator is short of
\* max_reviews.
BrowserGate ==
    /\ pc = "phase2"
    /\ IF Len(all_reviews) < request.max_reviews
       THEN /\ pc' = "enter"
            /\ UNCHANGED browser_outcome
       ELSE /\ pc' = "finish"
            /\ browser_outcome' = "skipped"
    /\ UNCHANGED <<request, rss_collected, rss_outcome, all_reviews, crawl,
                   browser_reviews, response>>
    /\ OutsideReviews

priority_countries ==
    <<"us", "gb", "ca", "au", "de", "fr", "jp", "in", "br", "mx", "es", "it",
      "nl", "kr", "ru", "sg">>

\* Lines 145-158 with "max_reviews >= 100" for "max_reviews > 100".
CountriesToScrapeFrom100(country, multi_country, max_reviews) ==
    IF multi_country /\ max_reviews >= 100
    THEN LET all == <<country>> \o SelectSeq(priority_countries, LAMBDA c : c # country)
         IN  IF max_reviews >= 3000 THEN Take(all, 16)
             ELSE IF max_reviews >= 1500 THEN Take(all, 12)
             ELSE Take(all, 8)
    ELSE <<country>>

\* Lines 145-158: the locales crawl_reviews visits, in order.
CountriesToScrape(country, multi_country, max_reviews) ==
    IF multi_country /\ max_reviews > 100
    THEN LET all == <<country>> \o SelectSeq(priority_countries, LAMBDA c : c # country)
         IN  IF max_reviews >= 3000 THEN Take(all, 16)
             ELSE IF max_reviews >= 1500 THEN Take(all, 12)
             ELSE Take(all, 8)
    ELSE <<country>>

\* crawl_reviews(app_id, country, max_reviews, min_rating, max_rating,
\* multi_country): its locals at entry.
CrawlEntry(country, max_reviews, min_rating, max_rating, multi_country) ==
    [max_reviews |-> max_reviews, min_rating |-> min_rating, max_rating |-> max_rating,
     countries_to_scrape |-> CountriesToScrape(country, multi_country, max_reviews),
     country_index |-> 1, all_reviews |-> <<>>, scroll_attempt |-> 0,
     no_new_reviews_count |-> 0]

\* Lines 417-430: the browser is launched (__aenter__) and crawl_reviews is
\* called for the remaining reviews; a failed launch raises inside the try
\* and leaves browser_reviews empty.
BrowserEnter ==
    /\ pc = "enter"
    /\ \E launched \in BOOLEAN :
         IF launched
         THEN /\ crawl' = CrawlEntry(request.country,
                                     request.max_reviews - Len(all_reviews),
                                     request.min_rating, request.max_rating,
                                     request.multi_country)
              /\ browser_outcome' = "running"
              /\ pc' = "country"
              /\ UNCHANGED browser_reviews
         ELSE /\ browser_outcome' = "launch_failed"
              /\ browser_reviews' = <<>>
              /\ pc' = "merge"
              /\ UNCHANGED crawl
    /\ UNCHANGED <<request, rss_collected, rss_outcome, all_reviews, response>>
    /\ OutsideReviews

\* The scroll loop's iteration count (range(25)) and the number of
\* consecutive iterations without a new review that ends a locale.
ScrollAttempts == 25
NoNewLimit == 5

NextCountry(c) ==
    [c EXCEPT !.country_index = @ + 1, !.scroll_attempt = 0, !.no_new_reviews_count = 0]

\* Lines 163-203: the head of the locale loop, the page acquisition and the
\* navigation.  A page that cannot be created or loaded moves on to the
\* next locale.
CountryStart ==
    /\ pc = "country"
    /\ IF \/ crawl.country_index > Len(crawl.countries_to_scrape)
          \/ Len(crawl.all_reviews) >= crawl.max_reviews
       THEN /\ pc' = "return"
            /\ UNCHANGED crawl
       ELSE \E page_loaded \in BOOLEAN :
              IF page_loaded
              THEN /\ pc' = "scroll"
                   /\ crawl' = [crawl EXCEPT !.scroll_attempt = 0,
                                             !.no_new_reviews_count = 0]
              ELSE /\ pc' = "country"
                   /\ crawl' = NextCountry(crawl)
    /\ UNCHANGED <<request, rss_collected, rss_outcome, all_reviews, browser_outcome, browser_reviews, response>>
    /\ OutsideReviews

\* Lines 265-269: the rating filter of the merge step.  Comparing None with
\* an int raises TypeError.
RatingFilter(rating, min_rating, max_rating) ==
    IF Truthy(min_rating) /\ rating = NoneV THEN "raise"
    ELSE IF Truthy(min_rating) /\ rating < min_rating THEN "skip"
    ELSE IF Truthy(max_rating) /\ rating = NoneV THEN "raise"
    ELSE IF Truthy(max_rating) /\ rating > max_rating THEN "skip"
    ELSE "admit"

\* Lines 255-272: the reviews of one extraction are merged in order; an
\* exception ends the merge and keeps what was merged before it.
RECURSIVE MergePage(_, _, _, _, _)
MergePage(acc, page_reviews, min_rating, max_rating, new_count) ==
    IF page_reviews = <<>>
    THEN [all_reviews |-> acc, new_count |-> new_count, raised |-> FALSE]
    ELSE LET review == Head(page_reviews)
             review_id == Digest(review)
             verdict == RatingFilter(review.rating, min_rating, max_rating)
         IN  IF DictHas(acc, review_id)
             THEN MergePage(acc, Tail(page_reviews), min_rating, max_rating, new_count)
             ELSE IF verdict = "raise"
             THEN [all_reviews |-> acc, new_count |-> new_count, raised |-> TRUE]
             ELSE IF verdict = "skip"
             THEN MergePage(acc, Tail(page_reviews), min_rating, max_rating, new_count)
             ELSE MergePage(DictSet(acc, review_id, review), Tail(page_reviews),
                            min_rating, max_rating, new_count + 1)

\* What one _extract_reviews call can return: cards in DOM order, at most
\* one per content[:100] (seenContent), each tagged source = browser; the
\* empty list when nothing is found or the evaluation fails.
Pages ==
    { [i \in 1..Len(p) |-> Tag(p[i], "browser")] :
        p \in { q \in SeqsUpTo(ReviewPool, MaxPage) :
                  \A i, j \in 1..Len(q) : i # j => q[i].head # q[j].head } }

\* Lines 249-288: one iteration of the scroll loop of the current locale.
ScrollAttempt ==
    /\ pc = "scroll"
    /\ IF Len(crawl.all_reviews) >= crawl.max_reviews
       THEN /\ crawl' = NextCountry(crawl)
            /\ pc' = "country"
       ELSE \E page_reviews \in Pages :
              LET m == MergePage(crawl.all_reviews, page_reviews,
                                 crawl.min_rating, crawl.max_rating, 0)
                  no_new == IF m.new_count = 0
                            THEN crawl.no_new_reviews_count + 1 ELSE 0
                  leave == \/ m.raised
                           \/ no_new >= NoNewLimit
                           \/ crawl.scroll_attempt + 1 >= ScrollAttempts
                  merged == [crawl EXCEPT !.all_reviews = m.all_reviews]
              IN  /\ crawl' = IF leave THEN NextCountry(merged)
                              ELSE [merged EXCEPT !.scroll_attempt = @ + 1,
                                                  !.no_new_reviews_count = no_new]
                  /\ pc' = IF leave THEN "country" ELSE "scroll"
    /\ UNCHANGED <<request, rss_collected, rss_outcome, all_reviews,
                   browser_outcome, browser_reviews, response>>
    /\ OutsideReviews

\* Lines 299-301 and the exit of the async with block of main.py: the
\* collector returns its first max_reviews reviews; an exception while the
\* browser is closed is caught by the orchestrator like any other.
CrawlReturn ==
    /\ pc = "return"
    /\ \E closed \in BOOLEAN :
         /\ browser_reviews' = IF closed
                               THEN Take(Values(crawl.all_reviews), crawl.max_reviews)
                               ELSE <<>>
         /\ browser_outcome' = IF closed THEN "returned" ELSE "raised"
    /\ pc' = "merge"
    /\ UNCHANGED <<request, rss_collected, rss_outcome, all_reviews, crawl,
                   response>>
    /\ OutsideReviews

\* BrowserTimeout with the TimeoutError left to the handler's outer except.
BrowserTimeoutUncaught ==
    /\ pc \in {"country", "scroll", "return"}
    /\ crawl' = NoCrawl
    /\ browser_outcome' = "timeout"
    /\ response' = [status |-> 500]
    /\ pc' = "done"
    /\ UNCHANGED <<request, rss_collected, rss_outcome, all_reviews, browser_reviews>>
    /\ OutsideReviews

\* Lines 432-434: the 300 s budget cancels the collector wherever it is;
\* its locals are lost with it.
BrowserTimeout ==
    /\ pc \in {"country", "scroll", "return"}
    /\ crawl' = NoCrawl
    /\ browser_reviews' = <<>>
    /\ browser_outcome' = "timeout"
    /\ pc' = "merge"
    /\ UNCHANGED <<request, rss_collected, rss_outcome, all_reviews, response>>
    /\ OutsideReviews

\* InsertBrowser without the membership test.
RECURSIVE InsertBrowserOverwrite(_, _)
InsertBrowserOverwrite(acc, revs) ==
    IF revs = <<>> THEN acc
    ELSE InsertBrowserOverwrite(DictSet(acc, Digest(Head(revs)), Tag(Head(revs), "browser")),
                                Tail(revs))

\* for review in browser_reviews: insert under its digest when absent,
\* tagged browser.
RECURSIVE InsertBrowser(_, _)
InsertBrowser(acc, revs) ==
    IF revs = <<>> THEN acc
    ELSE LET review_id == Digest(Head(revs))
         IN  IF DictHas(acc, review_id)
             THEN InsertBrowser(acc, Tail(revs))
             ELSE InsertBrowser(DictSet(acc, review_id, Tag(Head(revs), "browser")),
                                Tail(revs))

\* Lines 439-449.
BrowserMerge ==
    /\ pc = "merge"
    /\ all_reviews' = InsertBrowser(all_reviews, browser_reviews)
    /\ pc' = "finish"
    /\ UNCHANGED <<request, rss_collected, rss_outcome, crawl, browser_outcome, browser_reviews, response>>
    /\ OutsideReviews

CountIf(s, P(_)) == Cardinality({ i \in 1..Len(s) : P(s[i]) })

\* Lines 453-484: truncation, per-source counts and the response.
Respond ==
    /\ pc = "finish"
    /\ LET reviews == Take(Values(all_reviews), request.max_reviews)
           ratings == SelectSeq([i \in 1..Len(reviews) |-> reviews[i].rating],
                                LAMBDA r : Truthy(r))
       IN  response' =
             [status |-> 200,
              reviews |-> reviews,
              stats |-> [total |-> Len(reviews),
                         rated |-> Len(ratings),
                         rating_distribution |->
                             IF ratings = <<>> THEN <<>>
                             ELSE [i \in 1..5 |-> CountIf(ratings, LAMBDA r : r = i)],
                         sources |->
                             [rss_api |-> CountIf(reviews, LAMBDA r : r.source = "rss_api"),
                              browser_multi_country |->
                                  CountIf(reviews, LAMBDA r : r.source = "browser")]]]
    /\ pc' = "done"
    /\ UNCHANGED <<request, rss_collected, rss_outcome, all_reviews, crawl,
                   browser_outcome, browser_reviews>>
    /\ OutsideReviews

NextReviews ==
    \/ RssPhase
    \/ BrowserGate
    \/ BrowserEnter
    \/ CountryStart
    \/ ScrollAttempt
    \/ CrawlReturn
    \/ BrowserTimeout
    \/ BrowserMerge
    \/ Respond

SpecReviews == InitReviews /\ [][NextReviews]_vars

(***************************************************************************)
(* Properties of the review endpoint.                                      *)
(***************************************************************************)
\* Two reviews agree on the author and on the first 100 characters of the
\* content.
SameKey(a, b) == a.author = b.author /\ a.head = b.head

Fields(r) == <<r.author, r.head, r.tail, r.rating>>

Responded == pc = "done" /\ response.status = 200

\* The list the orchestrator iterated in its feed loop.
RssReviews == IF rss_outcome = "returned" THEN rss_collected ELSE <<>>

\* The number of feed-tagged entries of the accumulator.
FeedCount == CountIf(Values(all_reviews), LAMBDA r : r.source = "rss_api")

\* C1: a response of the review endpoint never holds more than
\* request.max_reviews reviews, whatever the two phases returned.
C1_ResponseWithinCap ==
    response.status = 200 => Len(response.reviews) <= request.max_reviews

\* C1 witness: the accumulator outgrew the cap and the response was cut.
C1_Witness ==
    /\ Responded
    /\ Len(all_reviews) > request.max_reviews
    /\ Len(response.reviews) = request.max_reviews

\* C2: the accumulator, in every state, and the response hold at most one
\* review per (author, first 100 characters of content).
C2_OnePerDigest ==
    /\ \A i, j \in 1..Len(all_reviews) :
         SameKey(all_reviews[i].review, all_reviews[j].review) => i = j
    /\ response.status = 200 =>
         \A i, j \in 1..Len(response.reviews) :
           SameKey(response.reviews[i], response.reviews[j]) => i = j

\* C2 witness: the feed returned two reviews of one digest, the browser a
\* third, and the request was answered.
C2_Witness ==
    /\ Responded
    /\ Len(response.reviews) >= 1
    /\ \E i, j \in 1..Len(RssReviews) :
         i # j /\ SameKey(RssReviews[i], RssReviews[j])
    /\ \E k \in 1..Len(browser_reviews) : SameKey(browser_reviews[k], RssReviews[1])

\* C3: an emitted review whose digest the feed phase produced carries the
\* feed tag and the field values of a review the feed returned, also when
\* the browser phase produced the same digest.
C3_FeedWins ==
    Responded =>
      \A i \in 1..Len(response.reviews) :
        (\E f \in 1..Len(RssReviews) : SameKey(RssReviews[f], response.reviews[i])) =>
          /\ response.reviews[i].source = "rss_api"
          /\ \E f \in 1..Len(RssReviews) :
               Fields(RssReviews[f]) = Fields(response.reviews[i])

\* C3 witness: the browser phase returned a review with the digest of an
\* emitted feed review and with other field values.
C3_Witness ==
    /\ Responded
    /\ \E i \in 1..Len(response.reviews), k \in 1..Len(browser_reviews) :
         /\ response.reviews[i].source = "rss_api"
         /\ SameKey(browser_reviews[k], response.reviews[i])
         /\ Fields(browser_reviews[k]) # Fields(response.reviews[i])

\* The reviews the browser collector gathered whose digest the feed did not
\* produce.
BrowserOnly ==
    { i \in 1..Len(crawl.all_reviews) :
        \A f \in 1..Len(RssReviews) :
          ~SameKey(RssReviews[f], crawl.all_reviews[i].review) }

\* C4: with F feed reviews, F < max_reviews, and B further reviews gathered
\* by the browser collector, the response holds F + min(B, max_reviews - F)
\* reviews, counted per source in stats.sources.
C4_MergeFillsCap ==
    (/\ Responded
     /\ rss_outcome = "returned"
     /\ browser_outcome = "returned"
     /\ FeedCount < request.max_reviews) =>
       LET F == FeedCount
           B == Cardinality(BrowserOnly)
           added == Min(B, request.max_reviews - F)
       IN  /\ Len(response.reviews) = F + added
           /\ response.stats.sources.rss_api = F
           /\ response.stats.sources.browser_multi_country = added
           /\ response.stats.total = F + added

\* C5: once the feed phase left max_reviews or more reviews in the
\* accumulator, the browser collector is never launched and every emitted
\* review carries the feed tag.
C5_BrowserSkipped ==
    (pc # "phase1" /\ FeedCount >= request.max_reviews) =>
      /\ browser_outcome \in {"none", "skipped"}
      /\ pc \notin {"enter", "country", "scroll", "return", "merge"}
      /\ crawl = NoCrawl
      /\ Responded =>
           \A i \in 1..Len(response.reviews) : response.reviews[i].source = "rss_api"

\* C5 witness: a request answered from the feed phase alone.
C5_Witness ==
    /\ Responded
    /\ browser_outcome = "skipped"
    /\ Len(response.reviews) = request.max_reviews

\* C6: a browser phase that fails to launch, raises or runs out of its
\* budget leaves a successful response with exactly the feed reviews and a
\* browser count of 0.
C6_BrowserFailureTolerated ==
    (pc = "done" /\ browser_outcome \in {"launch_failed", "raised", "timeout"}) =>
      /\ response.status = 200
      /\ Len(response.reviews) = Min(FeedCount, request.max_reviews)
      /\ \A i \in 1..Len(response.reviews) :
           /\ response.reviews[i].source = "rss_api"
           /\ \E f \in 1..Len(RssReviews) :
                Fields(RssReviews[f]) = Fields(response.reviews[i])
      /\ \A f \in 1..Len(RssReviews) :
           \E i \in 1..Len(response.reviews) : SameKey(RssReviews[f], response.reviews[i])
      /\ response.stats.sources.browser_multi_country = 0
      /\ response.stats.sources.rss_api = response.stats.total

\* C6 witness: the browser phase timed out after the feed phase had
\* returned reviews.
C6_Witness ==
    /\ Responded
    /\ browser_outcome = "timeout"
    /\ Len(response.reviews) >= 1

\* C7 as claimed: after a feed phase that ran out of its budget, every
\* review its collector had gathered is in the accumulator.
C7_PartialFeedKept ==
    (pc # "phase1" /\ rss_outcome = "timeout") =>
      \A f \in 1..Len(rss_collected) :
        \E i \in 1..Len(all_reviews) :
          /\ SameKey(all_reviews[i].review, rss_collected[f])
          /\ all_reviews[i].review.source = "rss_api"

\* C7 as amended: after a feed phase that ran out of its budget the
\* accumulator holds no feed review, whatever the collector had gathered,
\* and the handler goes on to the browser phase.
C7_TimedOutFeedDiscarded ==
    (pc # "phase1" /\ rss_outcome = "timeout") =>
      /\ FeedCount = 0
      /\ browser_outcome # "skipped"
      /\ pc = "done" =>
           /\ response.status = 200
           /\ browser_outcome \in {"launch_failed", "raised", "timeout", "returned"}
           /\ response.stats.sources.rss_api = 0

\* C7 witness: the feed collector had gathered reviews when its budget
\* ended, and the request was answered with browser reviews.
C7_Witness ==
    /\ Responded
    /\ rss_outcome = "timeout"
    /\ rss_collected # <<>>
    /\ response.stats.sources.browser_multi_country >= 1

(***************************************************************************)
(* The rating of a review, as each collector reads it from its source.     *)
(***************************************************************************)
\* Longest label or matched digit run drawn.
MaxDigits == 2

DigitChars == {"0", "1", "2", "3", "4", "5", "6", "7", "8", "9"}

DigitVal(c) ==
    CASE c = "0" -> 0 [] c = "1" -> 1 [] c = "2" -> 2 [] c = "3" -> 3 [] c = "4" -> 4
      [] c = "5" -> 5 [] c = "6" -> 6 [] c = "7" -> 7 [] c = "8" -> 8 [] c = "9" -> 9

\* The number a run of decimal digits denotes (JavaScript parseInt and
\* Python int on a \d+ match).
RECURSIVE DecVal(_)
DecVal(s) ==
    IF s = <<>> THEN 0
    ELSE 10 * DecVal(SubSeq(s, 1, Len(s) - 1)) + DigitVal(s[Len(s)])

\* Python int(x) for a JSON label: a str of an optional sign and decimal
\* digits converts, any other str raises ValueError, null raises TypeError.
PyInt(x) ==
    IF x.kind = "null" THEN [ok |-> FALSE, value |-> 0]
    ELSE LET s == x.text
             signed == s # <<>> /\ s[1] \in {"-", "+"}
             digits == IF signed THEN Tail(s) ELSE s
         IN  IF digits # <<>> /\ \A i \in 1..Len(digits) : digits[i] \in DigitChars
             THEN [ok |-> TRUE,
                   value |-> IF signed /\ s[1] = "-" THEN 0 - DecVal(digits)
                             ELSE DecVal(digits)]
             ELSE [ok |-> FALSE, value |-> 0]

Str(t) == [kind |-> "str", text |-> t]

\* py-reviews.py:152-155: int(entry["im:rating"].get("label", "0")), 0 on
\* ValueError or TypeError.
StreamRating(label) ==
    LET r == PyInt(IF label.kind = "missing" THEN Str(<<"0">>) ELSE label)
    IN  IF r.ok THEN r.value ELSE 0

\* app_store.py:212-219 and the ExtendedReview it builds (rating: int,
\* ge=1, le=5): 5 unless the star figure's aria-label matches
\* "(\d+) out of 5"; a rating the schema rejects drops the review.
ElementRating(figure, match) ==
    LET rating == IF figure /\ match # <<>> THEN DecVal(match) ELSE 5
    IN  IF 1 <= rating /\ rating <= 5
        THEN [state |-> "review", rating |-> rating]
        ELSE [state |-> "dropped", rating |-> NoneV]

\* app_store_browser.py:394-420 and 467: the stars aria-label, else a
\* figure's aria-label, else the count of filled stars; null outside 1..5.
CardRating(stars, figure, filled) ==
    LET r1 == IF stars # <<>> THEN DecVal(stars) ELSE 0
        r2 == IF r1 = 0 /\ figure # <<>> THEN DecVal(figure) ELSE r1
        r3 == IF r2 = 0 /\ filled > 0 /\ filled <= 5 THEN filled ELSE r2
    IN  IF r3 >= 1 /\ r3 <= 5 THEN r3 ELSE NoneV

\* The labels of a feed entry: absent, JSON null, or a short string.
Labels ==
    { [kind |-> "missing", text |-> <<>>], [kind |-> "null", text |-> <<>>] }
    \cup { Str(t) : t \in SeqsUpTo({"0", "3", "7", "-", "x"}, MaxDigits) }

\* What a regular expression's (\d+) group captured; <<>> when the
\* expression did not match.
Matches == SeqsUpTo({"0", "3", "7"}, MaxDigits)

RatingInputs ==
    { [collector |-> "stream", label |-> l, figure |-> FALSE, stars |-> <<>>,
       aria |-> <<>>, filled |-> 0] : l \in Labels }
    \cup { [collector |-> "element", label |-> Str(<<>>), figure |-> f, stars |-> m,
            aria |-> <<>>, filled |-> 0] : f \in BOOLEAN, m \in Matches }
    \cup { [collector |-> "card", label |-> Str(<<>>), figure |-> FALSE, stars |-> m,
            aria |-> a, filled |-> n] : m \in Matches, a \in Matches, n \in 0..6 }

InitRating ==
    /\ rating_in \in RatingInputs
    /\ rating_out = [state |-> "pending", rating |-> NoneV]
    /\ IdleReviews
    /\ IdleLimiter
    /\ IdleCache
    /\ IdleFetch
    /\ IdleStream
    /\ IdleDive
    /\ IdleSweep
    /\ IdleComments
    /\ IdleMiddleware
    /\ IdleWeb
    /\ IdleSite
    /\ IdleFiles
    /\ IdlePages
    /\ IdleDiscover
    /\ IdleGate
    /\ IdleAccumulate

\* scrape_reviews_streaming builds the review dict of one feed entry.
ParseStreamEntry ==
    /\ rating_in.collector = "stream"
    /\ rating_out.state = "pending"
    /\ rating_out' = [state |-> "review", rating |-> StreamRating(rating_in.label)]
    /\ UNCHANGED rating_in
    /\ OutsideRating

\* _parse_review_element builds the ExtendedReview of one review element.
ParseReviewElement ==
    /\ rating_in.collector = "element"
    /\ rating_out.state = "pending"
    /\ rating_out' = ElementRating(rating_in.figure, rating_in.stars)
    /\ UNCHANGED rating_in
    /\ OutsideRating

\* The extraction script builds the review of one card.
ExtractCard ==
    /\ rating_in.collector = "card"
    /\ rating_out.state = "pending"
    /\ rating_out' = [state |-> "review",
                      rating |-> CardRating(rating_in.stars, rating_in.aria,
                                            rating_in.filled)]
    /\ UNCHANGED rating_in
    /\ OutsideRating

NextRating == ParseStreamEntry \/ ParseReviewElement \/ ExtractCard

SpecRating == InitRating /\ [][NextRating]_vars

\* The rating the source states: the number its label or aria-label
\* denotes when that is one of 1..5, otherwise none.
StatedRating ==
    LET n == CASE rating_in.collector = "stream" ->
                    IF PyInt(rating_in.label).ok THEN PyInt(rating_in.label).value ELSE 0
               [] rating_in.collector = "element" ->
                    IF rating_in.figure THEN DecVal(rating_in.stars) ELSE 0
               [] OTHER -> 0
    IN  IF 1 <= n /\ n <= 5 THEN n ELSE NoneV

\* C8: a constructed review's rating is one of 1..5 or null, and it is null
\* when the source's rating is missing, unparsable or outside 1..5.
C8_RatingInRangeOrNull ==
    rating_out.state = "review" =>
      /\ rating_out.rating \in (1..5) \cup {NoneV}
      /\ (rating_in.collector \in {"stream", "element"} /\ StatedRating = NoneV)
           => rating_out.rating = NoneV

\* ---------------------------------------------------------------------
\* RateLimiter (utils/rate_limiter.py) and its caller crawl_page
\* (crawlers/base.py).
\* ---------------------------------------------------------------------

NumTasks == 2          \* tasks calling crawl_page
MaxCalls == 2          \* crawl_page calls per task
MaxTicks == 4          \* clock advances
TickSeconds == 30      \* seconds per clock advance
MaxBackoffs == 1       \* backoff() calls
requests_per_minute == 2
max_concurrent == 1
AppleRpm == 1          \* the limit configured for apps.apple.com

WindowSeconds == 60
BackoffSeconds == 60

Tasks == 1..NumTasks
Free == 0
Domains == {"apps.apple.com", "example.org"}
per_domain_rpm == [d \in {"apps.apple.com"} |-> AppleRpm]
Scopes == {"global"} \cup DOMAIN per_domain_rpm

\* _clean_old_requests with a window a quarter of the one the limits are
\* stated for.
RECURSIVE CleanOldShortWindow(_, _)
CleanOldShortWindow(requests, t) ==
    IF requests # <<>> /\ Head(requests) < t - (WindowSeconds \div 4)
    THEN CleanOldShortWindow(Tail(requests), t)
    ELSE requests

\* _clean_old_requests: pop from the left while the oldest is before the
\* cutoff.
RECURSIVE CleanOld(_, _)
CleanOld(requests, t) ==
    IF requests # <<>> /\ Head(requests) < t - WindowSeconds
    THEN CleanOld(Tail(requests), t)
    ELSE requests

InitLimiter ==
    /\ now = 0
    /\ global_requests = <<>>
    /\ domain_requests = [d \in Domains |-> <<>>]
    /\ semaphore = max_concurrent
    /\ lock = Free
    /\ backoff_until = [d \in Domains |-> NoneV]
    /\ backoffs = 0
    /\ lpc = [t \in Tasks |-> "idle"]
    /\ url = [t \in Tasks |-> "example.org"]
    /\ wake = [t \in Tasks |-> 0]
    /\ calls = [t \in Tasks |-> 0]
    /\ recorded = [s \in Scopes |-> <<>>]
    /\ IdleReviews
    /\ IdleRating
    /\ IdleCache
    /\ IdleFetch
    /\ IdleStream
    /\ IdleDive
    /\ IdleSweep
    /\ IdleComments
    /\ IdleMiddleware
    /\ IdleWeb
    /\ IdleSite
    /\ IdleFiles
    /\ IdlePages
    /\ IdleDiscover
    /\ IdleGate
    /\ IdleAccumulate

OutsideLimiter == UNCHANGED <<reviewVars, ratingVars, cacheVars, fetchVars, streamVars, sweepVars, diveVars,
                commentVars,
                mwVars,
                webVars,
                siteVars,
                diskVars,
                pageVars,
                discVars,
                gateVars,
                accumVars>>

\* The clock advances.
Tick ==
    /\ now + TickSeconds <= MaxTicks * TickSeconds
    /\ now' = now + TickSeconds
    /\ UNCHANGED <<global_requests, domain_requests, semaphore, lock,
                   backoff_until, backoffs, lpc, url, wake, calls, recorded>>
    /\ OutsideLimiter

\* crawl_page(url) is called and reaches "await self.rate_limiter.acquire(url)".
CrawlPage(t) ==
    /\ lpc[t] = "idle"
    /\ calls[t] < MaxCalls
    /\ \E d \in Domains : url' = [url EXCEPT ![t] = d]
    /\ lpc' = [lpc EXCEPT ![t] = "backoff_lock"]
    /\ UNCHANGED <<now, global_requests, domain_requests, semaphore, lock,
                   backoff_until, backoffs, wake, calls, recorded>>
    /\ OutsideLimiter

\* acquire: the backoff check under the lock. A domain in backoff makes the
\* task sleep with the lock held; an expired entry is deleted.
CheckBackoff(t) ==
    /\ lpc[t] = "backoff_lock"
    /\ lock = Free
    /\ IF backoff_until[url[t]] # NoneV /\ now < backoff_until[url[t]]
       THEN /\ lock' = t
            /\ lpc' = [lpc EXCEPT ![t] = "backoff_sleep"]
            /\ wake' = [wake EXCEPT ![t] = backoff_until[url[t]]]
            /\ UNCHANGED backoff_until
       ELSE /\ lock' = Free
            /\ lpc' = [lpc EXCEPT ![t] = "semaphore"]
            /\ backoff_until' = [backoff_until EXCEPT ![url[t]] = NoneV]
            /\ UNCHANGED wake
    /\ UNCHANGED <<now, global_requests, domain_requests, semaphore,
                   backoffs, url, calls, recorded>>
    /\ OutsideLimiter

\* acquire: the backoff sleep ends; the entry is deleted and the lock freed.
BackoffWake(t) ==
    /\ lpc[t] = "backoff_sleep"
    /\ now >= wake[t]
    /\ lock' = Free
    /\ backoff_until' = [backoff_until EXCEPT ![url[t]] = NoneV]
    /\ lpc' = [lpc EXCEPT ![t] = "semaphore"]
    /\ wake' = [wake EXCEPT ![t] = 0]
    /\ UNCHANGED <<now, global_requests, domain_requests, semaphore,
                   backoffs, url, calls, recorded>>
    /\ OutsideLimiter

\* Semaphore.acquire that does not wait for a free slot.
TakeSlotUnguarded(t) ==
    /\ lpc[t] = "semaphore"
    /\ semaphore' = semaphore - 1
    /\ lpc' = [lpc EXCEPT ![t] = "window_lock"]
    /\ UNCHANGED <<now, global_requests, domain_requests, lock,
                   backoff_until, backoffs, url, wake, calls, recorded>>
    /\ OutsideLimiter

\* acquire: "await self._semaphore.acquire()".
TakeSlot(t) ==
    /\ lpc[t] = "semaphore"
    /\ semaphore > 0
    /\ semaphore' = semaphore - 1
    /\ lpc' = [lpc EXCEPT ![t] = "window_lock"]
    /\ UNCHANGED <<now, global_requests, domain_requests, lock,
                   backoff_until, backoffs, url, wake, calls, recorded>>
    /\ OutsideLimiter

\* acquire: "Record this request" and leave the lock; acquire returns.
Record(t, g, dq) ==
    LET d == url[t]
        limited == d \in DOMAIN per_domain_rpm
    IN  /\ global_requests' = Append(g, now)
        /\ domain_requests' = IF limited
                              THEN [domain_requests EXCEPT ![d] = Append(dq, now)]
                              ELSE domain_requests
        /\ recorded' = [s \in Scopes |->
                          IF s = "global" \/ s = d
                          THEN Append(recorded[s], now)
                          ELSE recorded[s]]
        /\ lock' = Free
        /\ lpc' = [lpc EXCEPT ![t] = "crawling"]
        /\ wake' = [wake EXCEPT ![t] = 0]

\* acquire: asyncio.sleep inside a window loop, the lock held, until the
\* oldest timestamp of the deque is 60 seconds old.
SleepUntilOldestLeaves(t, position, requests) ==
    /\ lock' = t
    /\ lpc' = [lpc EXCEPT ![t] = position]
    /\ wake' = [wake EXCEPT ![t] = Head(requests) + WindowSeconds]
    /\ UNCHANGED recorded

\* acquire: the per-domain check, from the cleaning of the domain's deque on.
DomainWindow(t, g) ==
    LET d == url[t] IN
    IF d \in DOMAIN per_domain_rpm
    THEN LET dq == CleanOld(domain_requests[d], now) IN
         IF Len(dq) >= per_domain_rpm[d]
         THEN /\ SleepUntilOldestLeaves(t, "domain_sleep", dq)
              /\ global_requests' = g
              /\ domain_requests' = [domain_requests EXCEPT ![d] = dq]
         ELSE Record(t, g, dq)
    ELSE Record(t, g, <<>>)

\* acquire: the global check, from the cleaning of the global deque on.
GlobalWindow(t) ==
    LET g == CleanOld(global_requests, now) IN
    IF Len(g) >= requests_per_minute
    THEN /\ SleepUntilOldestLeaves(t, "global_sleep", g)
         /\ global_requests' = g
         /\ UNCHANGED domain_requests
    ELSE DomainWindow(t, g)

\* acquire: the second "async with self._lock" is entered.
EnterWindow(t) ==
    /\ lpc[t] = "window_lock"
    /\ lock = Free
    /\ GlobalWindow(t)
    /\ UNCHANGED <<now, semaphore, backoff_until, backoffs, url, calls>>
    /\ OutsideLimiter

\* acquire: the sleep of the global loop ends; clean and test again.
WakeGlobal(t) ==
    /\ lpc[t] = "global_sleep"
    /\ now >= wake[t]
    /\ GlobalWindow(t)
    /\ UNCHANGED <<now, semaphore, backoff_until, backoffs, url, calls>>
    /\ OutsideLimiter

\* acquire: the sleep of the domain loop ends; clean and test again.
WakeDomain(t) ==
    /\ lpc[t] = "domain_sleep"
    /\ now >= wake[t]
    /\ DomainWindow(t, global_requests)
    /\ UNCHANGED <<now, semaphore, backoff_until, backoffs, url, calls>>
    /\ OutsideLimiter

\* release() that frees nothing.
releaseNothing == semaphore' = semaphore

\* release().
release == semaphore' = semaphore + 1

\* crawl_page: result.success, the dict is returned from inside the try and
\* the finally clause releases.
CrawlSucceeds(t) ==
    /\ lpc[t] = "crawling"
    /\ release
    /\ lpc' = [lpc EXCEPT ![t] = "idle"]
    /\ calls' = [calls EXCEPT ![t] = @ + 1]
    /\ UNCHANGED <<now, global_requests, domain_requests, lock,
                   backoff_until, backoffs, url, wake, recorded>>
    /\ OutsideLimiter

\* crawl_page: the result is a failure, None is returned from inside the
\* try and the finally clause releases.
CrawlFails(t) ==
    /\ lpc[t] = "crawling"
    /\ release
    /\ lpc' = [lpc EXCEPT ![t] = "idle"]
    /\ calls' = [calls EXCEPT ![t] = @ + 1]
    /\ UNCHANGED <<now, global_requests, domain_requests, lock,
                   backoff_until, backoffs, url, wake, recorded>>
    /\ OutsideLimiter

\* crawl_page: the body raises; "except Exception" returns None and the
\* finally clause releases.
CrawlRaises(t) ==
    /\ lpc[t] = "crawling"
    /\ release
    /\ lpc' = [lpc EXCEPT ![t] = "idle"]
    /\ calls' = [calls EXCEPT ![t] = @ + 1]
    /\ UNCHANGED <<now, global_requests, domain_requests, lock,
                   backoff_until, backoffs, url, wake, recorded>>
    /\ OutsideLimiter

\* crawl_page: the task is cancelled in the body; CancelledError passes
\* "except Exception" and the finally clause releases.
CrawlCancelled(t) ==
    /\ lpc[t] = "crawling"
    /\ release
    /\ lpc' = [lpc EXCEPT ![t] = "cancelled"]
    /\ UNCHANGED <<now, global_requests, domain_requests, lock,
                   backoff_until, backoffs, url, wake, calls, recorded>>
    /\ OutsideLimiter

\* The task is cancelled at an await of acquire. "async with" frees the
\* lock; "finally: pass" keeps the slot, and crawl_page has not entered its
\* try, so nothing releases it.
CancelAcquire(t) ==
    /\ lpc[t] \in {"backoff_lock", "backoff_sleep", "semaphore",
                   "window_lock", "global_sleep", "domain_sleep"}
    /\ lock' = IF lock = t THEN Free ELSE lock
    /\ lpc' = [lpc EXCEPT ![t] =
                 IF lpc[t] \in {"window_lock", "global_sleep", "domain_sleep"}
                 THEN "cancelled_with_slot"
                 ELSE "cancelled"]
    /\ wake' = [wake EXCEPT ![t] = 0]
    /\ UNCHANGED <<now, global_requests, domain_requests, semaphore,
                   backoff_until, backoffs, url, calls, recorded>>
    /\ OutsideLimiter

\* backoff(url): under the lock, the domain is in backoff for 60 seconds.
Backoff(d) ==
    /\ backoffs < MaxBackoffs
    /\ lock = Free
    /\ backoff_until' = [backoff_until EXCEPT ![d] = now + BackoffSeconds]
    /\ backoffs' = backoffs + 1
    /\ UNCHANGED <<now, global_requests, domain_requests, semaphore, lock,
                   lpc, url, wake, calls, recorded>>
    /\ OutsideLimiter

NextLimiter ==
    \/ Tick
    \/ \E t \in Tasks : CrawlPage(t)
    \/ \E t \in Tasks : CheckBackoff(t)
    \/ \E t \in Tasks : BackoffWake(t)
    \/ \E t \in Tasks : TakeSlot(t)
    \/ \E t \in Tasks : EnterWindow(t)
    \/ \E t \in Tasks : WakeGlobal(t)
    \/ \E t \in Tasks : WakeDomain(t)
    \/ \E t \in Tasks : CrawlSucceeds(t)
    \/ \E t \in Tasks : CrawlFails(t)
    \/ \E t \in Tasks : CrawlRaises(t)
    \/ \E t \in Tasks : CrawlCancelled(t)
    \/ \E t \in Tasks : CancelAcquire(t)
    \/ \E d \in Domains : Backoff(d)

SpecLimiter == InitLimiter /\ [][NextLimiter]_vars

Limit(s) == IF s = "global" THEN requests_per_minute ELSE per_domain_rpm[s]

\* The timestamps recorded for a scope in the last 60 seconds.
InWindow(s) ==
    Cardinality({i \in 1..Len(recorded[s]) : recorded[s][i] > now - WindowSeconds})

\* C9: for the global scope and every configured domain, the timestamps
\* recorded in the 60 seconds up to the present, the instant of every return
\* of acquire included, number at most the scope's requests-per-minute limit.
C9_WindowWithinLimit == \A s \in Scopes : InWindow(s) <= Limit(s)

\* A task has just been admitted into a full global window after an older
\* timestamp left it.
C9_Witness ==
    /\ Len(recorded["global"]) > requests_per_minute
    /\ InWindow("global") = requests_per_minute
    /\ recorded["global"][Len(recorded["global"])] = now
    /\ \E t \in Tasks : lpc[t] = "crawling"

\* Tasks that have returned from acquire and not yet called release.
Returned == {t \in Tasks : lpc[t] = "crawling"}

\* Tasks holding a slot: inside acquire past the semaphore, or returned.
SlotHolders ==
    {t \in Tasks : lpc[t] \in {"window_lock", "global_sleep", "domain_sleep",
                               "crawling"}}

\* Tasks cancelled inside acquire after taking a slot.
CancelledHolders == {t \in Tasks : lpc[t] = "cancelled_with_slot"}

\* C10: the tasks returned from acquire and not yet released number at most
\* max_concurrent; the semaphore never goes below zero, so a task at the
\* semaphore waits while all slots are taken; and every slot taken is given
\* back exactly once by crawl_page's exits, so that the free slots and the
\* slots of tasks inside acquire or crawl_page (or cancelled inside acquire)
\* always add up to max_concurrent.
C10_SlotsWithinMaxConcurrent ==
    /\ Cardinality(Returned) <= max_concurrent
    /\ semaphore >= 0
    /\ semaphore + Cardinality(SlotHolders) + Cardinality(CancelledHolders)
         = max_concurrent

\* All slots are held by returned tasks, a further task waits at the
\* semaphore, and an earlier crawl_page has already released its slot.
C10_Witness ==
    /\ Cardinality(Returned) = max_concurrent
    /\ semaphore = 0
    /\ \E t \in Tasks : lpc[t] = "semaphore"
    /\ \E t \in Tasks : calls[t] >= 1

\* C11: no acquire returns for a domain while a backoff recorded for that
\* domain has not yet run out: at every step in which a task's acquire
\* returns, backoff_until holds no later instant for the task's domain.
C11_NoReturnDuringBackoff ==
    [][\A t \in Tasks :
         (lpc[t] # "crawling" /\ lpc'[t] = "crawling")
           => ~(backoff_until[url[t]] # NoneV /\ now < backoff_until[url[t]])]_vars

\* ---------------------------------------------------------------------
\* CacheManager (utils/cache.py): a memory tier in front of a durable
\* table reached through a client whose calls may raise.
\* ---------------------------------------------------------------------

MemoryCacheMaxSize == 1   \* _memory_cache_max_size
DefaultTtl == 2           \* default_ttl, in clock steps
MaxClock == 2             \* clock steps
MaxHits == 1              \* hits counted per entry

CacheKeys == {"reviews:1", "fonts:1"}
CacheTypes == {"reviews", "fonts"}
CacheTypeOf(k) == IF k = "fonts:1" THEN "fonts" ELSE "reviews"
CacheData == {"d1"}
\* ttl arguments: None and one step.
Ttls == {NoneV, 1}

CacheEntry(k, d, e, h) == [key |-> k, data |-> d, expires_at |-> e, hit_count |-> h]

NoRow == [present |-> FALSE, content |-> "", expires_at |-> 0, hit_count |-> 0]
Row(d, e, h) == [present |-> TRUE, content |-> d, expires_at |-> e, hit_count |-> h]

\* dict operations on _memory_cache, kept in insertion order.
MemHas(m, k) == \E i \in 1..Len(m) : m[i].key = k
MemGet(m, k) == m[CHOOSE i \in 1..Len(m) : m[i].key = k]
MemDel(m, k) == SelectSeq(m, LAMBDA e : e.key # k)
MemPut(m, e) ==
    IF MemHas(m, e.key)
    THEN [i \in 1..Len(m) |-> IF m[i].key = e.key THEN e ELSE m[i]]
    ELSE Append(m, e)

\* min(keys, key=hit_count): the first key of lowest hit count.
LruKey(m) ==
    m[CHOOSE i \in 1..Len(m) :
        \A j \in 1..Len(m) :
          \/ m[j].hit_count > m[i].hit_count
          \/ (m[j].hit_count = m[i].hit_count /\ j >= i)].key

\* _add_to_memory_cache without the eviction.
AddWithoutEviction(m, k, d, e) == MemPut(m, CacheEntry(k, d, e, 0))

\* _add_to_memory_cache: evict one entry when at capacity, then store.
AddToMemoryCache(m, k, d, e) ==
    LET kept == IF Len(m) >= MemoryCacheMaxSize THEN MemDel(m, LruKey(m)) ELSE m
    IN  MemPut(kept, CacheEntry(k, d, e, 0))

InitCache ==
    /\ memory_cache = <<>>
    /\ table = [k \in CacheKeys |-> NoRow]
    /\ client \in BOOLEAN
    /\ utcnow = 0
    /\ cache_last = [op |-> "init"]
    /\ IdleReviews
    /\ IdleRating
    /\ IdleLimiter
    /\ IdleFetch
    /\ IdleStream
    /\ IdleDive
    /\ IdleSweep
    /\ IdleComments
    /\ IdleMiddleware
    /\ IdleWeb
    /\ IdleSite
    /\ IdleFiles
    /\ IdlePages
    /\ IdleDiscover
    /\ IdleGate
    /\ IdleAccumulate

OutsideCache == UNCHANGED <<reviewVars, ratingVars, limiterVars, fetchVars, streamVars, sweepVars, diveVars,
                commentVars,
                mwVars,
                webVars,
                siteVars,
                diskVars,
                pageVars,
                discVars,
                gateVars,
                accumVars>>

\* The clock advances; the last call's result is looked at no more.
TickCache ==
    /\ utcnow < MaxClock
    /\ utcnow' = utcnow + 1
    /\ cache_last' = [op |-> "none"]
    /\ UNCHANGED <<memory_cache, table, client>>
    /\ OutsideCache

\* set(): the memory tier first, then the upsert, whose exception is
\* logged and swallowed.
CacheSet(k, d, ttl, raises) ==
    LET expires_at == utcnow + (IF Truthy(ttl) THEN ttl ELSE DefaultTtl)
        upserted == client /\ ~raises
    IN  /\ client \/ ~raises
        /\ memory_cache' = AddToMemoryCache(memory_cache, k, d, expires_at)
        /\ table' = IF upserted THEN [table EXCEPT ![k] = Row(d, expires_at, 0)]
                    ELSE table
        /\ cache_last' = [op |-> "set", key |-> k, data |-> d,
                          expires_at |-> expires_at, raised |-> raises,
                          was_present |-> MemHas(memory_cache, k),
                          was_full |-> Len(memory_cache) >= MemoryCacheMaxSize]
        /\ UNCHANGED <<client, utcnow>>
        /\ OutsideCache

\* get() returning None.
NoData == "None"

GetResult(k, data, served, mem, dur, raised) ==
    [op |-> "get", key |-> k, result |-> data,
     served_expires |-> served, mem |-> mem, dur |-> dur, raised |-> raised]

\* The memory-tier test of get with "<=" for "<".
MemoryFreshAtExpiry(e) == utcnow <= e.expires_at

\* get(): "datetime.utcnow() < entry.expires_at".
MemoryFresh(e) == utcnow < e.expires_at

\* get(): the memory tier, then the durable tier with its hit-count update,
\* promotion, or deletion of an expired row; any exception of the client
\* ends in a miss. raises is the client call that raises (0: none).
CacheGet(k, raises) ==
    LET found == MemHas(memory_cache, k)
        entry == MemGet(memory_cache, k)
        hit == found /\ MemoryFresh(entry)
        mem == IF ~found THEN "absent" ELSE IF hit THEN "fresh" ELSE "expired"
        m1 == IF found /\ ~hit THEN MemDel(memory_cache, k) ELSE memory_cache
        row == table[k]
    IN  /\ UNCHANGED <<client, utcnow>>
        /\ OutsideCache
        /\ IF hit
           THEN /\ raises = 0
                /\ entry.hit_count < MaxHits
                /\ memory_cache' = MemPut(memory_cache,
                                          [entry EXCEPT !.hit_count = @ + 1])
                /\ UNCHANGED table
                /\ cache_last' = GetResult(k, entry.data, entry.expires_at,
                                           mem, "unread", FALSE)
           ELSE IF ~client
           THEN /\ raises = 0
                /\ memory_cache' = m1
                /\ UNCHANGED table
                /\ cache_last' = GetResult(k, NoData, NoneV, mem, "unread", FALSE)
           ELSE IF raises = 1
           THEN /\ memory_cache' = m1
                /\ UNCHANGED table
                /\ cache_last' = GetResult(k, NoData, NoneV, mem, "unread", TRUE)
           ELSE IF ~row.present
           THEN /\ raises = 0
                /\ memory_cache' = m1
                /\ UNCHANGED table
                /\ cache_last' = GetResult(k, NoData, NoneV, mem, "absent", FALSE)
           ELSE IF utcnow < row.expires_at
           THEN IF raises = 2
                THEN /\ memory_cache' = m1
                     /\ UNCHANGED table
                     /\ cache_last' = GetResult(k, NoData, NoneV, mem, "fresh", TRUE)
                ELSE /\ row.hit_count < MaxHits
                     /\ table' = [table EXCEPT ![k].hit_count = @ + 1]
                     /\ memory_cache' = AddToMemoryCache(m1, k, row.content,
                                                         row.expires_at)
                     /\ cache_last' = GetResult(k, row.content, row.expires_at,
                                                mem, "fresh", FALSE)
           ELSE IF raises = 2
                THEN /\ memory_cache' = m1
                     /\ UNCHANGED table
                     /\ cache_last' = GetResult(k, NoData, NoneV, mem, "expired", TRUE)
                ELSE /\ memory_cache' = m1
                     /\ table' = [table EXCEPT ![k] = NoRow]
                     /\ cache_last' = GetResult(k, NoData, NoneV, mem, "expired", FALSE)

\* invalidate(): both tiers; True when the table had the row.
CacheInvalidate(k, raises) ==
    /\ client \/ ~raises
    /\ memory_cache' = MemDel(memory_cache, k)
    /\ table' = IF client /\ ~raises THEN [table EXCEPT ![k] = NoRow] ELSE table
    /\ cache_last' = [op |-> "invalidate", key |-> k,
                      result |-> client /\ ~raises /\ table[k].present]
    /\ UNCHANGED <<client, utcnow>>
    /\ OutsideCache

\* invalidate_type(): every entry whose key starts with the type.
CacheInvalidateType(ty, raises) ==
    LET in_memory == {i \in 1..Len(memory_cache) :
                        CacheTypeOf(memory_cache[i].key) = ty}
        in_table == {k \in CacheKeys : table[k].present /\ CacheTypeOf(k) = ty}
        deleted == client /\ ~raises
    IN  /\ client \/ ~raises
        /\ memory_cache' = SelectSeq(memory_cache, LAMBDA e : CacheTypeOf(e.key) # ty)
        /\ table' = IF deleted
                    THEN [k \in CacheKeys |-> IF k \in in_table THEN NoRow ELSE table[k]]
                    ELSE table
        /\ cache_last' = [op |-> "invalidate_type", key |-> ty,
                          result |-> Cardinality(in_memory)
                                     + (IF deleted THEN Cardinality(in_table) ELSE 0)]
        /\ UNCHANGED <<client, utcnow>>
        /\ OutsideCache

\* cleanup_expired(): entries and rows whose expiry is before now.
CacheCleanupExpired(raises) ==
    LET in_memory == {i \in 1..Len(memory_cache) :
                        memory_cache[i].expires_at < utcnow}
        in_table == {k \in CacheKeys : table[k].present /\ table[k].expires_at < utcnow}
        deleted == client /\ ~raises
    IN  /\ client \/ ~raises
        /\ memory_cache' = SelectSeq(memory_cache, LAMBDA e : ~(e.expires_at < utcnow))
        /\ table' = IF deleted
                    THEN [k \in CacheKeys |-> IF k \in in_table THEN NoRow ELSE table[k]]
                    ELSE table
        /\ cache_last' = [op |-> "cleanup_expired", key |-> "",
                          result |-> Cardinality(in_memory)
                                     + (IF deleted THEN Cardinality(in_table) ELSE 0)]
        /\ UNCHANGED <<client, utcnow>>
        /\ OutsideCache

NextCache ==
    \/ TickCache
    \/ \E k \in CacheKeys, d \in CacheData, ttl \in Ttls, raises \in BOOLEAN :
         CacheSet(k, d, ttl, raises)
    \/ \E k \in CacheKeys, raises \in 0..2 : CacheGet(k, raises)
    \/ \E k \in CacheKeys, raises \in BOOLEAN : CacheInvalidate(k, raises)
    \/ \E ty \in CacheTypes, raises \in BOOLEAN : CacheInvalidateType(ty, raises)
    \/ \E raises \in BOOLEAN : CacheCleanupExpired(raises)

SpecCache == InitCache /\ [][NextCache]_vars

MemHolds(k, d, e) ==
    /\ MemHas(memory_cache, k)
    /\ MemGet(memory_cache, k).data = d
    /\ MemGet(memory_cache, k).expires_at = e

TableHolds(k, d, e) ==
    /\ table[k].present
    /\ table[k].content = d
    /\ table[k].expires_at = e

C13_MemoryWithinCapacity == Len(memory_cache) <= MemoryCacheMaxSize

\* set has just stored a key that was already present in a full tier.
C13_Witness ==
    /\ cache_last.op = "set"
    /\ cache_last.was_present
    /\ cache_last.was_full
    /\ Len(memory_cache) <= MemoryCacheMaxSize

\* C14: when set has returned (a client being configured), the memory tier
\* holds the new entry exactly when the table holds it.
C14_SetAtomicAcrossTiers ==
    (cache_last.op = "set" /\ client) =>
      (MemHolds(cache_last.key, cache_last.data, cache_last.expires_at)
         <=> TableHolds(cache_last.key, cache_last.data, cache_last.expires_at))

\* ---------------------------------------------------------------------
\* fetch_json (api/py-reviews.py and api/reviews.py): up to max_retries
\* attempts at one URL.
\* ---------------------------------------------------------------------

max_retries == 3

\* What one urlopen + read + json.loads can do: a 2xx answer with JSON, a
\* 2xx answer that is not JSON (JSONDecodeError), an HTTPError of some code,
\* a URLError (no connection, or a timeout while connecting), and a timeout
\* while reading, which is raised as it is and is not a URLError.
Outcomes == {"json", "not_json", "http_404", "http_429", "http_500",
             "url_error", "read_timeout"}

HttpCode(o) ==
    CASE o = "http_404" -> 404
      [] o = "http_429" -> 429
      [] o = "http_500" -> 500
      [] OTHER -> 0

Implementations == {"py-reviews", "reviews"}

InitFetch ==
    /\ fetch \in {[impl |-> i, state |-> "running", attempt |-> 0,
                    outcomes |-> <<>>, slept |-> 0, data |-> "", status |-> 0]
                     : i \in Implementations}
    /\ IdleReviews
    /\ IdleRating
    /\ IdleLimiter
    /\ IdleCache
    /\ IdleStream
    /\ IdleDive
    /\ IdleSweep
    /\ IdleComments
    /\ IdleMiddleware
    /\ IdleWeb
    /\ IdleSite
    /\ IdleFiles
    /\ IdlePages
    /\ IdleDiscover
    /\ IdleGate
    /\ IdleAccumulate

OutsideFetch == UNCHANGED <<reviewVars, ratingVars, limiterVars, cacheVars, streamVars, sweepVars, diveVars,
                commentVars,
                mwVars,
                webVars,
                siteVars,
                diskVars,
                pageVars,
                discVars,
                gateVars,
                accumVars>>

FetchReturned(f, data, status) == [f EXCEPT !.state = "returned", !.data = data, !.status = status]

\* "if attempt < max_retries - 1: time.sleep(1 * (attempt + 1)); continue",
\* else the error value is returned.
RetryOrReturn(f, status) ==
    IF f.attempt < max_retries - 1
    THEN [f EXCEPT !.attempt = @ + 1, !.slept = @ + (f.attempt + 1)]
    ELSE FetchReturned(f, "{}", status)

\* py-reviews.py fetch_json: one pass of the loop body on outcome o.
AfterAttempt(f, o) ==
    CASE o = "json" -> FetchReturned(f, "json", 200)
      [] o = "read_timeout" -> [f EXCEPT !.state = "raised"]
      [] o = "http_429" -> FetchReturned(f, "{}", 429)
      [] HttpCode(o) # 0 -> RetryOrReturn(f, HttpCode(o))
      [] OTHER -> RetryOrReturn(f, 0)

\* reviews.py fetch_json: HTTPError is a URLError, so every failure but the
\* raw timeout is retried; there is no status in what it returns.
AfterAttemptReviews(f, o) ==
    CASE o = "json" -> FetchReturned(f, "json", 0)
      [] o = "read_timeout" -> [f EXCEPT !.state = "raised"]
      [] OTHER -> RetryOrReturn(f, 0)

\* One attempt of py-reviews.py fetch_json.
FetchAttempt(o) ==
    /\ fetch.impl = "py-reviews"
    /\ fetch.state = "running"
    /\ fetch' = AfterAttempt([fetch EXCEPT !.outcomes = Append(@, o)], o)
    /\ OutsideFetch

\* One attempt of reviews.py fetch_json.
FetchAttemptReviews(o) ==
    /\ fetch.impl = "reviews"
    /\ fetch.state = "running"
    /\ fetch' = AfterAttemptReviews([fetch EXCEPT !.outcomes = Append(@, o)], o)
    /\ OutsideFetch

NextFetch ==
    \/ \E o \in Outcomes : FetchAttempt(o)
    \/ \E o \in Outcomes : FetchAttemptReviews(o)

SpecFetch == InitFetch /\ [][NextFetch]_vars

\* The outcomes the disposition table returns at once, and those it retries.
NotRetried == {"http_404", "not_json"}
Retried == {"http_500", "url_error", "read_timeout"}

\* C15: a fetch_json call makes at most 3 attempts; an attempt ending in a
\* 4xx other than 429, or in a JSON decode failure, is the last one and the
\* call returns; an attempt ending in a 5xx or a timeout that is not the
\* third is followed by another attempt.
C15_DispositionTable ==
    fetch.state # "off" =>
      /\ Len(fetch.outcomes) <= max_retries
      /\ \A i \in 1..Len(fetch.outcomes) :
            /\ fetch.outcomes[i] \in NotRetried =>
                  (i = Len(fetch.outcomes) /\ fetch.state = "returned")
            /\ (fetch.outcomes[i] \in Retried /\ i < max_retries) =>
                  (i < Len(fetch.outcomes) \/ fetch.state = "running")

\* ---------------------------------------------------------------------
\* scrape_reviews_streaming (api/py-reviews.py): the filters in turn, the
\* pages of each filter in turn. The model follows the counters that steer
\* the two loops; the reviews themselves (all_reviews) are left out.
\* ---------------------------------------------------------------------

MaxFilters == 2       \* filters in a request

PageSize == 50
MaxPagesCap == 40
TargetCap == 2000
EmptyLimit == 5
\* current_delay_multiplier 1.0, in 256ths.
One == 256

\* Targets whose page budgets are 1, 4, 5 and 6 pages.
Targets == {10, 200, 250, 300}

CeilDiv(a, b) == (a + b - 1) \div b

\* min(math.ceil(target / 50), 40)
MaxPagesOf(target) == Min(CeilDiv(Min(target, TargetCap), PageSize), MaxPagesCap)

\* What fetch_json hands back for a page: a status and, for a 200, a feed
\* with no entry, with only the entry that has no im:rating, with a full
\* page of review entries, of which fresh are not yet in all_reviews (none
\* or all of them), or with a single review given as one object in place
\* of a list. Any failure is ({}, code).
PageResults ==
    {[status |-> 200, entries |-> e, fresh |-> 0]
        : e \in {"none", "info_only", "full", "object"}}
    \cup {[status |-> 200, entries |-> "full", fresh |-> PageSize]}
    \cup {[status |-> 429, entries |-> "none", fresh |-> 0],
          [status |-> 500, entries |-> "none", fresh |-> 0]}

\* What is remembered of the page requested last: how often it was fetched,
\* the status of the first fetch and of the retry, the entries of the answer
\* that was processed and what it added to the filter's count.
NoPage == [page |-> 0, fetches |-> 0, first |-> 0, retry |-> 0,
           entries |-> "unprocessed", counted |-> 0]

InitStream ==
    /\ stream \in {[filters |-> fs, auto_throttle |-> a, filter_idx |-> 0, page |-> 1,
                    consecutive_empty |-> 0, filter_reviews_count |-> 0,
                    current_delay_multiplier |-> One,
                    pc |-> "fetch", only_empty |-> TRUE, last |-> NoPage,
                    ended |-> <<>>, total_unique |-> 0,
                    events |-> <<[type |-> "start", filter |-> 0]>>]
                     : fs \in SeqsUpTo(Targets, MaxFilters) \ {<<>>},
                       a \in BOOLEAN}
    /\ IdleReviews
    /\ IdleRating
    /\ IdleLimiter
    /\ IdleCache
    /\ IdleFetch
    /\ IdleSweep
    /\ IdleDive
    /\ IdleComments
    /\ IdleMiddleware
    /\ IdleWeb
    /\ IdleSite
    /\ IdleFiles
    /\ IdlePages
    /\ IdleDiscover
    /\ IdleGate
    /\ IdleAccumulate

OutsideStream == UNCHANGED <<reviewVars, ratingVars, limiterVars, cacheVars, fetchVars, sweepVars, diveVars,
                commentVars,
                mwVars,
                webVars,
                siteVars,
                diskVars,
                pageVars,
                discVars,
                gateVars,
                accumVars>>

Target(s) == Min(s.filters[s.filter_idx + 1], TargetCap)

\* "if consecutive_empty >= 5" with 2 for 5.
EarlyStopAfterTwo(n) == n >= 2

\* "if consecutive_empty >= 5"
EarlyStop(n) == n >= EmptyLimit

\* "if filter_reviews_count >= target" with ">" for ">=".
TargetExceeded(count, target) == count > target

\* "if filter_reviews_count >= target"
TargetReached(count, target) == count >= target

\* The retry's "if status_code == 429" never taken.
RetryNeverLimited(r) == FALSE

\* The retry's "if status_code == 429"
RetryStillLimited(r) == r.status = 429

\* "min(current_delay_multiplier * 2, 4.0)" without the cap.
ThrottledUncapped(m) == m * 2

\* "current_delay_multiplier = min(current_delay_multiplier * 2, 4.0)"
Throttled(m) == Min(m * 2, 4 * One)

\* "if current_delay_multiplier > 1.0:
\*      current_delay_multiplier = max(1.0, current_delay_multiplier * 0.75)"
Relaxed(m) ==
    IF m > One
    THEN IF (m * 3) \div 4 > One THEN (m * 3) \div 4 ELSE One
    ELSE m

\* The events yielded on leaving a filter, progress and throttle events
\* aside: the event of the break taken, if any; filterComplete; then
\* filterCooldown when another filter follows, else complete.
FilterEvents(how, idx, last) ==
    (CASE how = "target-reached" -> <<[type |-> "filterTargetReached", filter |-> idx]>>
       [] how = "exhausted" -> <<[type |-> "filterEarlyStop", filter |-> idx]>>
       [] how = "rate-limited-skip" -> <<[type |-> "filterSkipped", filter |-> idx]>>
       [] OTHER -> <<>>)
    \o <<[type |-> "filterComplete", filter |-> idx]>>
    \o (IF last THEN <<[type |-> "complete", filter |-> idx]>>
        ELSE <<[type |-> "filterCooldown", filter |-> idx]>>)

\* The filter is left: filterComplete, then the cooldown and the relaxing
\* of the multiplier before the next filter, or the complete event.
EndFilter(s, how) ==
    LET done == [s EXCEPT !.ended = Append(@, [how |-> how, target |-> Target(s),
                                               pages |-> s.page,
                                               only_empty |-> s.only_empty,
                                               count |-> s.filter_reviews_count,
                                               retry |-> s.last.retry]),
                          !.events = @ \o FilterEvents(how, s.filter_idx,
                                                       s.filter_idx = Len(s.filters) - 1)]
    IN  IF s.filter_idx < Len(s.filters) - 1
        THEN [done EXCEPT !.filter_idx = @ + 1, !.page = 1, !.consecutive_empty = 0,
                          !.filter_reviews_count = 0, !.only_empty = TRUE,
                          !.last = NoPage, !.pc = "fetch",
                          !.current_delay_multiplier = Relaxed(@)]
        ELSE [done EXCEPT !.pc = "complete", !.last = NoPage]

\* The rest of the loop body once the page's data is in hand: count the
\* entries, then the two early stops, then the next page if there is one.
\* Over an entry that is one object, "for entry in entries" walks its keys
\* and entry.get raises AttributeError on the key "im:rating": the
\* generator ends there.
ProcessPage(s, r) ==
    LET counted ==
          CASE r.entries = "full" ->
                 [s EXCEPT !.filter_reviews_count = @ + PageSize,
                           !.total_unique = @ + r.fresh,
                           !.consecutive_empty = 0,
                           !.last.entries = r.entries,
                           !.last.counted = PageSize]
            [] r.entries = "info_only" ->
                 [s EXCEPT !.consecutive_empty = 0, !.last.entries = r.entries]
            [] OTHER ->
                 [s EXCEPT !.consecutive_empty = @ + 1, !.last.entries = r.entries]
    IN  IF r.entries = "object"
        THEN [s EXCEPT !.pc = "raised", !.last.entries = r.entries]
        ELSE IF EarlyStop(counted.consecutive_empty) THEN EndFilter(counted, "exhausted")
        ELSE IF TargetReached(counted.filter_reviews_count, Target(counted))
        THEN EndFilter(counted, "target-reached")
        ELSE IF counted.page < MaxPagesOf(Target(counted))
        THEN [counted EXCEPT !.page = @ + 1, !.pc = "fetch"]
        ELSE EndFilter(counted, "pages-done")

\* fetch_json(url) has answered r for the current page.
Logged(s, r, role) ==
    [s EXCEPT !.only_empty = @ /\ r.status = 200 /\ r.entries = "none",
              !.last = IF role = "first"
                       THEN [NoPage EXCEPT !.page = s.page, !.fetches = 1,
                                           !.first = r.status]
                       ELSE [@ EXCEPT !.fetches = @ + 1, !.retry = r.status]]

\* A full page holds a review not yet in all_reviews while all_reviews is
\* empty.
Possible(s, r) == (r.entries = "full" /\ s.total_unique = 0) => r.fresh > 0

\* fetch_json for the next page; on 429 with auto-throttle the multiplier
\* doubles (4.0 at most) and the page waits to be fetched again.
StreamFetch(r) ==
    /\ stream.pc = "fetch"
    /\ Possible(stream, r)
    /\ stream' =
         IF r.status = 429 /\ stream.auto_throttle
         THEN [Logged(stream, r, "first") EXCEPT
                 !.pc = "retry",
                 !.current_delay_multiplier = Throttled(@)]
         ELSE ProcessPage(Logged(stream, r, "first"), r)
    /\ OutsideStream

\* The retry after the throttle wait: a second 429 skips the filter.
StreamRetry(r) ==
    /\ stream.pc = "retry"
    /\ Possible(stream, r)
    /\ stream' =
         IF RetryStillLimited(r)
         THEN EndFilter(Logged(stream, r, "retry"), "rate-limited-skip")
         ELSE ProcessPage(Logged(stream, r, "retry"), r)
    /\ OutsideStream

NextStream ==
    \/ \E r \in PageResults : StreamFetch(r)
    \/ \E r \in PageResults : StreamRetry(r)

SpecStream == InitStream /\ [][NextStream]_vars

Ended == {stream.ended[i] : i \in 1..Len(stream.ended)}

\* C16 as stated: a filter whose every page came back with no entry has
\* requested exactly 5 pages and ended exhausted.
C16_FiveEmptyPagesThenExhausted ==
    stream.pc # "off" =>
      \A e \in Ended :
        e.only_empty => (e.how = "exhausted" /\ e.pages = EmptyLimit)

\* C16, amended: a filter whose every page came back with no entry has
\* requested exactly 5 pages and ended exhausted when its page budget
\* min(ceil(target / 50), 40) is at least 5 (target above 200); with a
\* smaller budget it has requested exactly the budget's pages and ended
\* without being exhausted.
C16_FiveEmptyPagesOrBudget ==
    stream.pc # "off" =>
      \A e \in Ended :
        e.only_empty =>
          IF MaxPagesOf(e.target) >= EmptyLimit
          THEN e.how = "exhausted" /\ e.pages = EmptyLimit
          ELSE e.how = "pages-done" /\ e.pages = MaxPagesOf(e.target)

\* Two filters saw nothing but empty pages: one with a budget of 6 pages
\* stopped after 5, one with a budget of 1 page after that page.
C16_Witness ==
    /\ stream.pc = "complete"
    /\ \E e \in Ended : e.only_empty /\ e.target = 300 /\ e.how = "exhausted"
                        /\ e.pages = EmptyLimit
    /\ \E e \in Ended : e.only_empty /\ e.target = 10 /\ e.how = "pages-done"
                        /\ e.pages = 1

\* C17 as stated: at the complete event every filter has ended as
\* target-reached, exhausted or rate-limited-skip.
C17_ThreeTerminalStates ==
    stream.pc = "complete" =>
      /\ Len(stream.ended) = Len(stream.filters)
      /\ \A e \in Ended : e.how \in {"target-reached", "exhausted", "rate-limited-skip"}

\* C17, amended: the run is never stuck short of its end (the complete
\* event, or the exception of a page it cannot walk), no filter goes past
\* its page budget and no page is fetched more than twice, so the run
\* ends; at the complete event every filter has ended, as target-reached
\* (count >= target), exhausted (5 consecutive empty pages),
\* rate-limited-skip (the retry answered 429) or with its page budget used
\* up and the target not reached.
C17_TerminatesInFourWays ==
    stream.pc # "off" =>
      /\ stream.pc \in {"complete", "raised"} \/ ENABLED NextStream
      /\ stream.pc # "complete" => stream.page <= MaxPagesOf(Target(stream))
      /\ stream.last.fetches <= 2
      /\ stream.pc = "complete" => Len(stream.ended) = Len(stream.filters)
      /\ \A e \in Ended :
           /\ e.how \in {"target-reached", "exhausted", "rate-limited-skip", "pages-done"}
           /\ e.pages <= MaxPagesOf(e.target)
           /\ e.how = "target-reached" => e.count >= e.target
           /\ e.how = "exhausted" => e.pages >= EmptyLimit
           /\ e.how = "rate-limited-skip" => e.retry = 429
           /\ e.how = "pages-done" =>
                (e.pages = MaxPagesOf(e.target) /\ e.count < e.target)

\* The run is complete; one filter reached its target and one used up its
\* page budget with reviews collected but the target not reached.
C17_Witness ==
    /\ stream.pc = "complete"
    /\ \E e \in Ended : e.how = "target-reached"
    /\ \E e \in Ended : e.how = "pages-done" /\ e.count > 0

\* C18: with auto-throttle on, a page answered with 429 is fetched once
\* more and no page is fetched more than twice; a retry answered with 429
\* ends the filter as rate-limited-skip (and only that does), so the filter
\* requests nothing further; any other retry answer is processed, a full
\* page adding its reviews to the filter's count.
C18_OneRetryThenSkip ==
    (stream.pc # "off" /\ stream.auto_throttle) =>
      /\ stream.last.fetches <= 2
      /\ stream.pc = "retry" =>
           (stream.last.first = 429 /\ stream.last.fetches = 1
              /\ stream.last.page = stream.page)
      /\ (stream.last.first = 429 /\ stream.pc # "retry") => stream.last.fetches = 2
      /\ stream.last.first # 429 => stream.last.fetches <= 1
      /\ stream.last.retry # 429
      /\ \A e \in Ended : e.how = "rate-limited-skip" <=> e.retry = 429
      /\ stream.last.fetches = 2 =>
           /\ stream.last.entries # "unprocessed"
           /\ stream.last.counted = IF stream.last.entries = "full" THEN PageSize ELSE 0

\* A first filter was skipped after its retry was answered 429; in the next
\* filter a retried page came back full and was counted.
C18_Witness ==
    /\ stream.auto_throttle
    /\ \E e \in Ended : e.how = "rate-limited-skip"
    /\ stream.last.fetches = 2
    /\ stream.last.retry = 200
    /\ stream.last.entries = "full"
    /\ stream.filter_reviews_count >= PageSize

\* ---------------------------------------------------------------------
\* The browser collector's locale sweep: crawl_reviews of
\* app_store_browser.py, lines 140-301, with the accumulator all_reviews
\* kept as its size (held).  Caps around every threshold of lines 145-156
\* are drawn, with multi_country on and off, and primary locales that are
\* first in, last in and absent from priority_countries.
\* ---------------------------------------------------------------------

\* An extraction may add a single review while the accumulator holds fewer
\* than this many; it may always add nothing or fill the accumulator.
MaxSingles == 2

Caps == {1, 100, 101, 1499, 1500, 2999, 3000}
Countries == {"us", "sg", "zz"}

\* The ways one locale can fail: _managed_page() raising, the page not
\* loading (line 201), _extract_reviews raising, the merge loop raising
\* (line 264 on a review without a rating) and _scroll_page raising.
Failures == {"page_raises", "not_loaded", "extract_raises", "merge_raises",
             "scroll_raises"}

InitSweep ==
    /\ sweep \in {[country |-> c, multi_country |-> m, max_reviews |-> n,
                   countries_to_scrape |-> CountriesToScrape(c, m, n),
                   country_index |-> 1, held |-> 0,
                   scroll_attempt |-> 0, no_new_reviews_count |-> 0,
                   total_new_this_country |-> 0,
                   visited |-> <<>>, started_with |-> 0, pc |-> "head",
                   last |-> [how |-> "none", new |-> 0],
                   result |-> NoneV]
                    : c \in Countries, m \in BOOLEAN, n \in Caps}
    /\ IdleReviews
    /\ IdleRating
    /\ IdleLimiter
    /\ IdleCache
    /\ IdleFetch
    /\ IdleStream
    /\ IdleDive
    /\ IdleComments
    /\ IdleMiddleware
    /\ IdleWeb
    /\ IdleSite
    /\ IdleFiles
    /\ IdlePages
    /\ IdleDiscover
    /\ IdleGate
    /\ IdleAccumulate

OutsideSweep ==
    UNCHANGED <<reviewVars, ratingVars, limiterVars, cacheVars, fetchVars, streamVars,
                diveVars,
                commentVars,
                mwVars,
                webVars,
                siteVars,
                diskVars,
                pageVars,
                discVars,
                gateVars,
                accumVars>>

\* "except Exception ... continue" with the exception let through.
LocaleFailedAborts(s, how) ==
    [s EXCEPT !.pc = "return", !.result = 0 - 1,
              !.last = [how |-> how, new |-> s.total_new_this_country]]

\* Lines 201-203 and 292-294: "continue" moves to the next locale; the
\* accumulator is left as it is.
LocaleFailed(s, how) ==
    [s EXCEPT !.country_index = @ + 1, !.pc = "head",
              !.last = [how |-> how, new |-> s.total_new_this_country]]

\* The scroll loop ends (break, or range(25) used up): lines 290 and 297.
LocaleDone(s) ==
    [s EXCEPT !.country_index = @ + 1, !.pc = "head",
              !.last = [how |-> "done", new |-> s.total_new_this_country]]

\* Lines 163-246: the head of the locale loop, the page and the
\* navigation.  The loop ends when the locales are used up or the
\* accumulator holds max_reviews (line 164); line 301 returns the first
\* max_reviews values.
SweepHead ==
    /\ sweep.pc = "head"
    /\ IF \/ sweep.country_index > Len(sweep.countries_to_scrape)
          \/ sweep.held >= sweep.max_reviews
       THEN sweep' = [sweep EXCEPT !.pc = "return",
                                   !.result = Min(sweep.held, sweep.max_reviews)]
       ELSE \E nav \in {"page_raises", "not_loaded", "loaded"} :
              LET s == [sweep EXCEPT
                          !.visited = Append(@, sweep.countries_to_scrape[sweep.country_index]),
                          !.started_with = sweep.held,
                          !.total_new_this_country = 0,
                          !.no_new_reviews_count = 0,
                          !.scroll_attempt = 0]
              IN  sweep' = IF nav = "loaded"
                           THEN [s EXCEPT !.pc = "scroll"]
                           ELSE LocaleFailed(s, nav)
    /\ OutsideSweep

\* What one extraction can add to the accumulator.
Gains(s) ==
    {0, s.max_reviews - s.held, s.max_reviews - s.held + 1}
      \cup (IF s.held < MaxSingles THEN {1} ELSE {})

\* Lines 249-288: one iteration of the scroll loop.
SweepScroll ==
    /\ sweep.pc = "scroll"
    /\ IF \/ sweep.scroll_attempt >= ScrollAttempts
          \/ sweep.held >= sweep.max_reviews
       THEN sweep' = LocaleDone(sweep)
       ELSE \E how \in {"ok", "extract_raises", "merge_raises", "scroll_raises"} :
            \E new_count \in Gains(sweep) :
              LET merged == [sweep EXCEPT !.held = @ + new_count,
                                          !.total_new_this_country = @ + new_count]
                  counted == [merged EXCEPT !.no_new_reviews_count =
                                               IF new_count = 0 THEN @ + 1 ELSE 0]
              IN  CASE how = "extract_raises" ->
                         /\ new_count = 0
                         /\ sweep' = LocaleFailed(sweep, how)
                    [] how = "merge_raises" ->
                         sweep' = LocaleFailed(merged, how)
                    [] OTHER ->
                         IF new_count = 0 /\ counted.no_new_reviews_count >= NoNewLimit
                         THEN /\ how = "ok"
                              /\ sweep' = LocaleDone(counted)
                         ELSE IF how = "scroll_raises"
                         THEN /\ sweep.scroll_attempt < ScrollAttempts - 1
                              /\ sweep' = LocaleFailed(counted, how)
                         ELSE sweep' = [counted EXCEPT !.scroll_attempt = @ + 1]
    /\ OutsideSweep

NextSweep ==
    \/ SweepHead
    \/ SweepScroll

SpecSweep == InitSweep /\ [][NextSweep]_vars

\* The fixed order: the primary locale, then the priority locales without it.
FixedOrder(s) ==
    <<s.country>> \o SelectSeq(priority_countries, LAMBDA c : c # s.country)

\* The stated number of locales for a cap.
StatedLocales(s) ==
    IF ~s.multi_country \/ s.max_reviews <= 100 THEN 1
    ELSE IF s.max_reviews >= 3000 THEN 16
    ELSE IF s.max_reviews >= 1500 THEN 12
    ELSE 8

\* C19: the locales visited are a prefix of the fixed order (the primary
\* locale, then the priority locales without it): exactly one locale when
\* multi-locale is off or the cap is at most 100, otherwise at most 16 for a
\* cap of 3000 or more, 12 for 1500 or more and 8 below; no locale is
\* visited twice, and no locale is started once the accumulator holds cap
\* reviews.
C19_LocalePrefix ==
    sweep.pc # "off" =>
      /\ Len(sweep.visited) <= StatedLocales(sweep)
      /\ Len(sweep.visited) <= Len(FixedOrder(sweep))
      /\ \A i \in 1..Len(sweep.visited) : sweep.visited[i] = FixedOrder(sweep)[i]
      /\ \A i, j \in 1..Len(sweep.visited) :
            i # j => sweep.visited[i] # sweep.visited[j]
      /\ sweep.visited # <<>> => sweep.started_with < sweep.max_reviews
      /\ (StatedLocales(sweep) = 1 /\ sweep.pc = "return") => Len(sweep.visited) = 1

\* A sweep for 2999 reviews from a primary locale that is last in the
\* priority list has visited its 12 locales and returned.
C19_Witness ==
    /\ sweep.pc = "return"
    /\ sweep.multi_country
    /\ sweep.max_reviews = 2999
    /\ sweep.country = "sg"
    /\ Len(sweep.visited) = 12

\* The step ends the current locale by a failure.
LocaleFails ==
    /\ sweep.pc \in {"head", "scroll"}
    /\ sweep'.last.how \in Failures
    /\ sweep'.country_index # sweep.country_index

\* C20: a failure while loading, extracting from or scrolling one locale
\* ends only that locale: the reviews merged before the failure stay in the
\* accumulator, the sweep goes on to the head of the locale loop with the
\* next locale, which is started unless the locales are used up or the cap
\* is reached, and crawl_reviews returns a list (never raises).
C20_FailureEndsOnlyThatLocale ==
    [][/\ LocaleFails =>
            /\ sweep'.held >= sweep.held
            /\ sweep'.last.new = sweep'.total_new_this_country
            /\ sweep'.pc = "head"
            /\ sweep'.country_index = sweep.country_index + 1
            /\ sweep'.result = NoneV
       /\ (sweep.pc = "head" /\ sweep.last.how \in Failures) =>
            IF /\ sweep.country_index <= Len(sweep.countries_to_scrape)
               /\ sweep.held < sweep.max_reviews
            THEN /\ sweep'.visited =
                      Append(sweep.visited, sweep.countries_to_scrape[sweep.country_index])
                 /\ sweep'.held = sweep.held
                 /\ sweep'.pc # "return"
            ELSE /\ sweep'.pc = "return"
                 /\ sweep'.result = Min(sweep.held, sweep.max_reviews)
       /\ sweep'.pc = "return" => sweep'.result \in 0..sweep.max_reviews]_vars

\* A locale is being scrolled that was started after a locale failed in
\* its scroll loop with reviews merged, and those reviews are still held.
C20_Witness ==
    /\ sweep.pc = "scroll"
    /\ sweep.last.how \in {"extract_raises", "merge_raises", "scroll_raises"}
    /\ sweep.last.new > 0
    /\ sweep.held >= sweep.last.new
    /\ Len(sweep.visited) >= 2

\* ---------------------------------------------------------------------
\* The deep-dive crawl: RedditCrawler.crawl_deep_dive (reddit.py 297-484)
\* behind the endpoint crawl_reddit_deep_dive (main.py 560-609).  Every
\* request the crawl issues (about.json, search.json, comments) answers
\* nondeterministically: with data, with nothing, or by raising.
\* ---------------------------------------------------------------------

MaxSubreddits == 2
MaxTopics == 2
MaxResults == 2

Communities == {"a", "b"}
SearchTopics == {"t1", "t2"}

\* Subscriber counts on both sides of every boundary of the table.
SubscriberCounts == {9999, 10000, 99999, 100000, 999999, 1000000}

\* (score, num_comments) of the posts a search can return.
Engagements == {<<1, 0>>, <<5, 0>>, <<8, 4>>, <<8, 6>>, <<25, 11>>}

\* Post p1 with every engagement, post p2 with the largest one.
PostPool ==
    {[id |-> "p1", score |-> e[1], num_comments |-> e[2]] : e \in Engagements}
      \cup {[id |-> "p2", score |-> 25, num_comments |-> 11]}

\* Lines 157-159 and 367: the thresholds used when none was computed.
DefaultThreshold == [min_score |-> 5, min_comments |-> 3]

\* Lines 161-172: the table of get_engagement_threshold.
ThresholdTable(subscribers) ==
    IF subscribers < 10000 THEN [min_score |-> 2, min_comments |-> 1]
    ELSE IF subscribers < 100000 THEN [min_score |-> 5, min_comments |-> 3]
    ELSE IF subscribers < 1000000 THEN [min_score |-> 10, min_comments |-> 5]
    ELSE [min_score |-> 20, min_comments |-> 10]

\* "subreddit not in threshold_cache"
NoThreshold == [min_score |-> NoneV, min_comments |-> NoneV]

NoResponse == [success |-> FALSE, error |-> FALSE, posts |-> <<>>, valid |-> <<>>,
               total_posts |-> NoneV, total_comments |-> NoneV, sent |-> FALSE]

InitDive ==
    /\ dive \in {[subreddits |-> ss, search_topics |-> ts,
                  validate_subreddits |-> v, use_adaptive_thresholds |-> ad,
                  subscribers |-> [c \in Communities |->
                                     IF c = "a" THEN n ELSE 1000000],
                  pc |-> "enter",
                  validated_subreddits |-> <<>>, invalid_subreddits |-> <<>>,
                  about |-> <<>>,
                  threshold_cache |-> [c \in Communities |-> NoThreshold],
                  min_score |-> NoneV, min_comments |-> NoneV,
                  all_posts |-> <<>>, posts_list |-> <<>>,
                  validate_index |-> 1, subreddit_index |-> 1, topic_index |-> 1,
                  comment_index |-> 1,
                  total_comments |-> 0,
                  searches |-> 0, searched |-> {}, comment_requests |-> 0,
                  duplicate_met |-> FALSE,
                  response |-> NoResponse]
                   : ss \in {x \in SeqsUpTo(Communities, MaxSubreddits) :
                                  x = <<>> \/ x[1] = "a"},
                     ts \in {x \in SeqsUpTo(SearchTopics, MaxTopics) :
                                  \A i \in 1..Len(x) : x[i] = IF i = 1 THEN "t1" ELSE "t2"},
                     v \in BOOLEAN, ad \in BOOLEAN,
                     n \in SubscriberCounts}
    /\ IdleReviews
    /\ IdleRating
    /\ IdleLimiter
    /\ IdleCache
    /\ IdleFetch
    /\ IdleStream
    /\ IdleSweep
    /\ IdleComments
    /\ IdleMiddleware
    /\ IdleWeb
    /\ IdleSite
    /\ IdleFiles
    /\ IdlePages
    /\ IdleDiscover
    /\ IdleGate
    /\ IdleAccumulate

OutsideDive ==
    UNCHANGED <<reviewVars, ratingVars, limiterVars, cacheVars, fetchVars, streamVars,
                sweepVars,
                commentVars,
                mwVars,
                webVars,
                siteVars,
                diskVars,
                pageVars,
                discVars,
                gateVars,
                accumVars>>

\* main.py 595-608: an exception of the crawl becomes success = False.
DiveFailed(d) ==
    [d EXCEPT !.pc = "responded",
              !.response = [success |-> FALSE, error |-> TRUE, posts |-> <<>>,
                            valid |-> <<>>, total_posts |-> NoneV,
                            total_comments |-> NoneV, sent |-> TRUE]]

\* main.py 588-594: the crawl's result becomes the response.
DiveSucceeded(d, posts, valid, total_comments) ==
    [d EXCEPT !.pc = "responded",
              !.response = [success |-> TRUE, error |-> FALSE, posts |-> posts,
                            valid |-> valid, total_posts |-> Len(posts),
                            total_comments |-> total_comments, sent |-> TRUE]]

\* main.py 576-577 and reddit.py 336-361: the crawler is entered and
\* crawl_deep_dive starts.
DiveEnter ==
    /\ dive.pc = "enter"
    /\ \E entered \in BOOLEAN :
         dive' = IF ~entered THEN DiveFailed(dive)
                 ELSE IF dive.validate_subreddits
                 THEN [dive EXCEPT !.pc = "validate"]
                 ELSE [dive EXCEPT !.pc = "threshold",
                                   !.validated_subreddits = dive.subreddits]
    /\ OutsideDive

\* The subreddit_type values validate_subreddit can meet, and no usable
\* answer at all.
AboutAnswers == {"public", "restricted", "private", "unavailable"}

\* Lines 56-58 accepting every community that answered.
IsValidTypeLax(sub_type) == sub_type # "unavailable"

\* Lines 56-58: "if sub_type not in ['public', 'restricted']: return None"
IsValidType(sub_type) == sub_type \in {"public", "restricted"}

\* validate_subreddits with the requested list swept when nothing validated.
DiveValidateFallsBack ==
    /\ dive.pc = "validate"
    /\ IF dive.validate_index > Len(dive.subreddits)
       THEN dive' = IF dive.validated_subreddits = <<>>
                    THEN [dive EXCEPT !.pc = "threshold",
                                      !.validated_subreddits = dive.subreddits]
                    ELSE [dive EXCEPT !.pc = "threshold"]
       ELSE \E sub_type \in AboutAnswers :
              LET subreddit == dive.subreddits[dive.validate_index]
                  d == [dive EXCEPT !.validate_index = @ + 1,
                                    !.about = Append(@, [name |-> subreddit,
                                                         sub_type |-> sub_type])]
              IN  dive' = IF IsValidType(sub_type)
                          THEN [d EXCEPT !.validated_subreddits = Append(@, subreddit)]
                          ELSE [d EXCEPT !.invalid_subreddits = Append(@, subreddit)]
    /\ OutsideDive

\* validate_subreddits (73-106), one subreddit per step, and lines 336-358
\* once the list is used up.
DiveValidate ==
    /\ dive.pc = "validate"
    /\ IF dive.validate_index > Len(dive.subreddits)
       THEN dive' = IF dive.validated_subreddits = <<>>
                    THEN DiveSucceeded(dive, <<>>, <<>>, 0)
                    ELSE [dive EXCEPT !.pc = "threshold"]
       ELSE \E sub_type \in AboutAnswers :
              LET subreddit == dive.subreddits[dive.validate_index]
                  d == [dive EXCEPT !.validate_index = @ + 1,
                                    !.about = Append(@, [name |-> subreddit,
                                                         sub_type |-> sub_type])]
              IN  dive' = IF IsValidType(sub_type)
                          THEN [d EXCEPT !.validated_subreddits = Append(@, subreddit)]
                          ELSE [d EXCEPT !.invalid_subreddits = Append(@, subreddit)]
    /\ OutsideDive

\* Stable sort by score + 2 * num_comments, largest first (line 439).
SortKey(p) == p.score + p.num_comments * 2

RECURSIVE InsertSorted(_, _)
InsertSorted(sorted, p) ==
    IF sorted = <<>> THEN <<p>>
    ELSE IF SortKey(Head(sorted)) >= SortKey(p)
         THEN <<Head(sorted)>> \o InsertSorted(Tail(sorted), p)
         ELSE <<p>> \o sorted

RECURSIVE SortPosts(_)
SortPosts(ps) ==
    IF ps = <<>> THEN <<>>
    ELSE InsertSorted(SortPosts(SubSeq(ps, 1, Len(ps) - 1)), ps[Len(ps)])

\* Lines 442-445: the posts whose comments are fetched, by position in
\* posts_list.
HighEngagement(ps) ==
    Take(SelectSeq([i \in 1..Len(ps) |-> i],
                   LAMBDA i : ps[i].score > 20 \/ ps[i].num_comments > 10), 20)

\* Lines 363-371: the head of the loop over the validated subreddits and
\* the threshold of the subreddit; lines 437-439 when the loop is over.
DiveThreshold ==
    /\ dive.pc = "threshold"
    /\ IF dive.subreddit_index > Len(dive.validated_subreddits)
       THEN dive' = [dive EXCEPT !.pc = "comments",
                                 !.posts_list = SortPosts(dive.all_posts)]
       ELSE LET subreddit == dive.validated_subreddits[dive.subreddit_index]
                cached == dive.threshold_cache[subreddit] # NoThreshold
                Go(d) == IF d.search_topics = <<>>
                         THEN [d EXCEPT !.subreddit_index = @ + 1]
                         ELSE [d EXCEPT !.pc = "search", !.topic_index = 1]
                Use(d, t) == Go([d EXCEPT !.min_score = t.min_score,
                                          !.min_comments = t.min_comments])
            IN  IF dive.use_adaptive_thresholds /\ ~cached
                THEN \E answer \in {"subscribers", "null", "unavailable"} :
                       CASE answer = "null" -> dive' = DiveFailed(dive)
                         [] OTHER ->
                            LET t == IF answer = "subscribers"
                                     THEN ThresholdTable(dive.subscribers[subreddit])
                                     ELSE DefaultThreshold
                            IN  dive' = Use([dive EXCEPT !.threshold_cache[subreddit] = t], t)
                ELSE dive' = Use(dive, IF cached THEN dive.threshold_cache[subreddit]
                                       ELSE DefaultThreshold)
    /\ OutsideDive

\* Line 381 with the score compared with min_comments.
BelowThresholdMixed(p, min_score, min_comments) ==
    p.score < min_comments /\ p.num_comments < min_comments

\* Line 381: "if score < min_score and num_comments < min_comments: continue"
BelowThreshold(p, min_score, min_comments) ==
    p.score < min_score /\ p.num_comments < min_comments

\* Line 374 without the membership test.
SeenNever(all_posts, post_id) == FALSE

\* Line 374: "post_id in all_posts"
Seen(all_posts, post_id) == DictHas(all_posts, post_id)

\* Lines 391-405: all_posts[post_id] = {...}
StorePost(all_posts, e) ==
    IF DictHas(all_posts, e.id)
    THEN [i \in 1..Len(all_posts) |-> IF all_posts[i].id = e.id THEN e ELSE all_posts[i]]
    ELSE Append(all_posts, e)

\* Lines 370-408: the loop over the posts of one search result.
RECURSIVE ProcessPosts(_, _, _, _, _, _)
ProcessPosts(all_posts, posts, subreddit, topic, min_score, min_comments) ==
    IF posts = <<>> THEN all_posts
    ELSE LET p == Head(posts)
             next == IF Seen(all_posts, p.id) \/ BelowThreshold(p, min_score, min_comments)
                     THEN all_posts
                     ELSE StorePost(all_posts,
                                    [id |-> p.id, subreddit |-> subreddit,
                                     score |-> p.score, num_comments |-> p.num_comments,
                                     comments |-> 0, search_topic |-> topic])
         IN  ProcessPosts(next, Tail(posts), subreddit, topic, min_score, min_comments)

\* Lines 376-412: one search request of the sweep and what is done with
\* its answer.
DiveSearch ==
    /\ dive.pc = "search"
    /\ \E answered \in BOOLEAN, posts \in SeqsUpTo(PostPool, MaxResults) :
         LET subreddit == dive.validated_subreddits[dive.subreddit_index]
             topic == dive.search_topics[dive.topic_index]
             d == [dive EXCEPT !.searches = @ + 1,
                               !.searched = @ \cup {subreddit},
                               !.duplicate_met =
                                  @ \/ (answered /\ \E i \in 1..Len(posts) :
                                                      Seen(dive.all_posts, posts[i].id)),
                               !.all_posts =
                                  IF answered
                                  THEN ProcessPosts(@, posts, subreddit, topic,
                                                    dive.min_score, dive.min_comments)
                                  ELSE @]
         IN  /\ ~answered => posts = <<>>
             /\ dive' = IF dive.topic_index < Len(dive.search_topics)
                        THEN [d EXCEPT !.topic_index = @ + 1]
                        ELSE [d EXCEPT !.subreddit_index = @ + 1, !.pc = "threshold"]
    /\ OutsideDive

\* Lines 447-484: the comments of the next high-engagement post are
\* fetched; after the last one the result is returned.
DiveComments ==
    /\ dive.pc = "comments"
    /\ LET high == HighEngagement(dive.posts_list)
       IN  IF dive.comment_index > Len(high)
           THEN dive' = DiveSucceeded(dive, dive.posts_list, dive.validated_subreddits,
                                      dive.total_comments)
           ELSE \E n \in {0, 2} :
                  dive' = [dive EXCEPT
                             !.comment_requests = @ + 1,
                             !.posts_list[high[dive.comment_index]].comments = n,
                             !.total_comments = @ + n,
                             !.comment_index = @ + 1]
    /\ OutsideDive

NextDive ==
    \/ DiveEnter
    \/ DiveValidate
    \/ DiveThreshold
    \/ DiveSearch
    \/ DiveComments

SpecDive == InitDive /\ [][NextDive]_vars

\* The threshold stated for a community: the table value of its subscriber
\* count when adaptive thresholds are on, (5, 3) otherwise.
StatedThreshold(d, c) ==
    IF d.use_adaptive_thresholds THEN ThresholdTable(d.subscribers[c])
    ELSE DefaultThreshold

Meets(p, t) == p.score >= t.min_score \/ p.num_comments >= t.min_comments

\* C21 as stated: every post of a deep-dive response has score >= min_score
\* or comment count >= min_comments for the stated threshold of the
\* community it was found in.
C21_MeetsStatedThreshold ==
    dive.response.success =>
      \A i \in 1..Len(dive.response.posts) :
        Meets(dive.response.posts[i],
              StatedThreshold(dive, dive.response.posts[i].subreddit))

\* The threshold in force for a community: the one computed when its
\* sweep began (the table value, or (5, 3) when its about data could not
\* be read), and (5, 3) when adaptive thresholds are off.
ThresholdInForce(d, c) ==
    IF d.use_adaptive_thresholds THEN d.threshold_cache[c] ELSE DefaultThreshold

\* C21 as amended: every post of a deep-dive response has score >=
\* min_score or comment count >= min_comments for the threshold in force
\* for the community it was found in, which is the table value of the
\* community's subscriber count or (5, 3).
C21_MeetsThresholdInForce ==
    dive.response.success =>
      \A i \in 1..Len(dive.response.posts) :
        LET c == dive.response.posts[i].subreddit
        IN  /\ Meets(dive.response.posts[i], ThresholdInForce(dive, c))
            /\ ThresholdInForce(dive, c) \in
                  {StatedThreshold(dive, c), DefaultThreshold}

\* A response holds a post with score 8 and 6 comments found in a
\* community of 999 999 subscribers under the table's (10, 5).
C21_Witness ==
    /\ dive.response.success
    /\ dive.use_adaptive_thresholds
    /\ dive.subscribers["a"] = 999999
    /\ dive.threshold_cache["a"] = ThresholdTable(999999)
    /\ \E i \in 1..Len(dive.response.posts) :
         /\ dive.response.posts[i].subreddit = "a"
         /\ dive.response.posts[i].score = 8
         /\ dive.response.posts[i].num_comments = 6

\* The fields of a stored post that say what was stored and where from.
Identity(e) ==
    [id |-> e.id, subreddit |-> e.subreddit, search_topic |-> e.search_topic,
     score |-> e.score, num_comments |-> e.num_comments]

UniqueIds(ps) == \A i, j \in 1..Len(ps) : i # j => ps[i].id # ps[j].id

\* C23: every post id appears at most once in the accumulator and in the
\* result; an entry, once stored, is never replaced or moved; a new entry
\* carries the community and topic of the search that is being processed;
\* and the result holds exactly the stored entries.
C23_FirstSeenWins ==
    /\ [](dive.pc # "off" =>
            /\ UniqueIds(dive.all_posts)
            /\ UniqueIds(dive.posts_list)
            /\ dive.response.success =>
                 /\ UniqueIds(dive.response.posts)
                 /\ {Identity(dive.response.posts[i]) : i \in 1..Len(dive.response.posts)}
                      = {Identity(dive.all_posts[i]) : i \in 1..Len(dive.all_posts)})
    /\ [][dive.pc # "off" =>
            /\ Len(dive'.all_posts) >= Len(dive.all_posts)
            /\ \A i \in 1..Len(dive.all_posts) : dive'.all_posts[i] = dive.all_posts[i]
            /\ \A i \in (Len(dive.all_posts) + 1)..Len(dive'.all_posts) :
                  /\ dive.pc = "search"
                  /\ dive'.all_posts[i].subreddit =
                        dive.validated_subreddits[dive.subreddit_index]
                  /\ dive'.all_posts[i].search_topic =
                        dive.search_topics[dive.topic_index]]_vars

\* A response after a sweep in which a search returned a post that was
\* already stored, and the stored post still carries the first topic.
C23_Witness ==
    /\ dive.response.success
    /\ dive.duplicate_met
    /\ dive.searches >= 2
    /\ \E i \in 1..Len(dive.response.posts) :
         /\ dive.response.posts[i].id = "p1"
         /\ dive.response.posts[i].search_topic = "t1"

\* The community answered a validation as public or restricted.
ValidatedOpen(d, c) ==
    \E k \in 1..Len(d.about) :
      d.about[k].name = c /\ d.about[k].sub_type \in {"public", "restricted"}

\* C24: with validation enabled, every community that has been searched
\* validated as public or restricted; a search request is issued only
\* after every requested community has been validated; a comment request
\* is issued only when the sweep is over, and no search request follows
\* a comment request.
C24_ValidateSearchComment ==
    /\ []((dive.pc # "off" /\ dive.validate_subreddits) =>
            /\ \A c \in dive.searched : ValidatedOpen(dive, c)
            /\ dive.searches > 0 => Len(dive.about) = Len(dive.subreddits)
            /\ dive.comment_requests > 0 => dive.pc \in {"comments", "responded"})
    /\ [][(dive.pc # "off" /\ dive.validate_subreddits) =>
            /\ dive'.searches > dive.searches =>
                  /\ dive.validate_index > Len(dive.subreddits)
                  /\ dive'.about = dive.about
                  /\ dive.comment_requests = 0
            /\ dive.comment_requests > 0 => dive'.searches = dive.searches
            /\ dive'.comment_requests > dive.comment_requests =>
                  dive.subreddit_index > Len(dive.validated_subreddits)]_vars

\* Comments are being fetched after a sweep of two searches in the one
\* community of two that validated as public; the other was private.
C24_Witness ==
    /\ dive.validate_subreddits
    /\ dive.comment_requests > 0
    /\ dive.searches = 2
    /\ dive.searched = {"a"}
    /\ dive.about = <<[name |-> "a", sub_type |-> "public"],
                      [name |-> "b", sub_type |-> "private"]>>

\* Validation ran to its end and no requested community passed it.
AllFailedValidation(d) ==
    /\ d.validate_subreddits
    /\ d.subreddits # <<>>
    /\ Len(d.about) = Len(d.subreddits)
    /\ \A k \in 1..Len(d.about) : d.about[k].sub_type \notin {"public", "restricted"}

\* C25: a deep dive in which every requested community fails validation
\* issues no search and no comment request, and its response has
\* success = true, no error, no posts, validation.valid = [] and zero
\* counts.
C25_AllInvalidIsEmptySuccess ==
    /\ (dive.pc # "off" /\ AllFailedValidation(dive)) =>
          /\ dive.searches = 0
          /\ dive.comment_requests = 0
          /\ dive.pc \in {"validate", "responded"}
    /\ (dive.pc = "responded" /\ AllFailedValidation(dive)) =>
          dive.response = [success |-> TRUE, error |-> FALSE, posts |-> <<>>,
                           valid |-> <<>>, total_posts |-> 0, total_comments |-> 0,
                           sent |-> TRUE]

\* The response of a deep dive for two communities, one private and one
\* that could not be read.
C25_Witness ==
    /\ dive.pc = "responded"
    /\ dive.response.success
    /\ dive.validate_subreddits
    /\ dive.search_topics # <<>>
    /\ dive.about = <<[name |-> "a", sub_type |-> "private"],
                      [name |-> "b", sub_type |-> "unavailable"]>>

\* ---------------------------------------------------------------------
\* The comment tree of one post: RedditCrawler._fetch_comments_deep
\* (reddit.py 515-586), applied to forests deeper than max_depth.
\* ---------------------------------------------------------------------

\* Deepest nesting level of the input forests (the root is level 0).
MaxInputDepth == 4

\* Line 452: crawl_deep_dive calls with max_depth=3.
max_depth == 3

\* The children a listing can hold: comments (t1) with a body that is
\* kept or dropped, and a "more" stub.
NodeKinds ==
    {[kind |-> "t1", body |-> b] : b \in {"hi", "yo", "", "[deleted]", "[removed]"}}
      \cup {[kind |-> "more", body |-> ""]}

Node(k, replies) == [kind |-> k.kind, body |-> k.body, replies |-> replies]

\* Chains of replies down to level n.
RECURSIVE Chains(_)
Chains(n) ==
    IF n = 0 THEN {Node(k, <<>>) : k \in NodeKinds}
    ELSE {Node(k, r) : k \in NodeKinds,
                       r \in {<<>>} \cup {<<t>> : t \in Chains(n - 1)}}

\* One chain, or two top-level comments with at most one reply each.
Forests ==
    {<<t>> : t \in Chains(MaxInputDepth)}
      \cup {<<t, u>> : t \in Chains(1), u \in Chains(1)}

InitComments ==
    /\ comments \in {[pc |-> "fetch", children |-> f, max_comments |-> m, result |-> <<>>,
                       how |-> "none"]
                        : f \in Forests, m \in {1, 30}}
    /\ IdleReviews
    /\ IdleRating
    /\ IdleLimiter
    /\ IdleCache
    /\ IdleFetch
    /\ IdleStream
    /\ IdleSweep
    /\ IdleDive
    /\ IdleMiddleware
    /\ IdleWeb
    /\ IdleSite
    /\ IdleFiles
    /\ IdlePages
    /\ IdleDiscover
    /\ IdleGate
    /\ IdleAccumulate

OutsideComments ==
    UNCHANGED <<reviewVars, ratingVars, limiterVars, cacheVars, fetchVars, streamVars,
                sweepVars, diveVars,
                mwVars,
                webVars,
                siteVars,
                diskVars,
                pageVars,
                discVars,
                gateVars,
                accumVars>>

\* Line 553: "if not body or body in ['[deleted]', '[removed]']"
Dropped(body) == body = "" \/ body \in {"[deleted]", "[removed]"}

\* Line 569 with "depth <= max_depth".
WithinDepthInclusive(depth) == depth <= max_depth

\* Line 569: "if depth < max_depth"
WithinDepth(depth) == depth < max_depth

\* Lines 544-580: extract_comments(children, depth).
RECURSIVE extract_comments(_, _)
extract_comments(children, depth) ==
    IF children = <<>> THEN <<>>
    ELSE LET child == Head(children)
             rest == extract_comments(Tail(children), depth)
         IN  IF child.kind # "t1" \/ Dropped(child.body)
             THEN rest
             ELSE <<[body |-> child.body, depth |-> depth,
                     replies |-> IF WithinDepth(depth) /\ child.replies # <<>>
                                 THEN extract_comments(child.replies, depth + 1)
                                 ELSE <<>>]>> \o rest

\* Lines 536-586: the listing is fetched and its first max_comments
\* children are extracted; no usable answer and an exception give [].
FetchCommentsDeep ==
    /\ comments.pc = "fetch"
    /\ \E how \in {"data", "none", "raises"} :
         comments' = [comments EXCEPT
                        !.pc = "returned", !.how = how,
                        !.result = IF how = "data"
                                   THEN extract_comments(
                                          Take(comments.children, comments.max_comments), 0)
                                   ELSE <<>>]
    /\ OutsideComments

NextComments ==
    \/ FetchCommentsDeep

SpecComments == InitComments /\ [][NextComments]_vars

\* Every comment of the forest at nesting level `level` has that depth, a
\* depth in 0..3 and a body that is not empty, [deleted] or [removed].
RECURSIVE WellFormed(_, _)
WellFormed(forest, level) ==
    \A i \in 1..Len(forest) :
      /\ forest[i].depth = level
      /\ forest[i].depth \in 0..3
      /\ forest[i].body \notin {"", "[deleted]", "[removed]"}
      /\ WellFormed(forest[i].replies, level + 1)

\* The bodies along every path from a root of the forest.
RECURSIVE Paths(_)
Paths(forest) ==
    UNION {{<<forest[i].body>>}
             \cup {<<forest[i].body>> \o q : q \in Paths(forest[i].replies)}
           : i \in 1..Len(forest)}

\* The input paths made of comments only, none of them dropped, down to
\* level 3.
KeptPath(p) ==
    /\ Len(p) <= 4
    /\ \A k \in 1..Len(p) : p[k] \notin {"", "[deleted]", "[removed]"}

\* The input forest without its stubs ("more" is no comment).
RECURSIVE CommentsOnly(_)
CommentsOnly(forest) ==
    IF forest = <<>> THEN <<>>
    ELSE (IF Head(forest).kind = "t1"
          THEN <<[body |-> Head(forest).body,
                  replies |-> CommentsOnly(Head(forest).replies)]>>
          ELSE <<>>) \o CommentsOnly(Tail(forest))

\* C22: in the returned tree each comment's depth is its nesting level
\* and lies in 0..3, no comment has an empty, [deleted] or [removed] body,
\* and every returned comment lies on an input path of at most four kept
\* comments: nothing is returned below a dropped comment or below depth 3.
C22_CommentTreeBounded ==
    comments.pc = "returned" =>
      /\ WellFormed(comments.result, 0)
      /\ \A p \in Paths(comments.result) :
            /\ KeptPath(p)
            /\ p \in Paths(CommentsOnly(comments.children))

\* A chain of five kept comments came back as a tree of depth 3.
C22_Witness ==
    /\ comments.pc = "returned"
    /\ \E p \in Paths(CommentsOnly(comments.children)) :
         Len(p) = 5 /\ \A k \in 1..5 : p[k] \in {"hi", "yo"}
    /\ \E p \in Paths(comments.result) : Len(p) = 4

\* ---------------------------------------------------------------------
\* The middleware limiter: RateLimiter.is_allowed and
\* RateLimitMiddleware.dispatch of main.py (91-165).  Time is in whole
\* seconds and never runs backwards.
\* ---------------------------------------------------------------------

\* requests_per_minute and burst_limit of the limiter instance (30 and 10
\* by default, lines 132-135), scaled down.
MwRequestsPerMinute == 3
MwBurstLimit == 2

\* The instants at which requests arrive: inside and outside the 5-second
\* window of the first, and around the end of its 60-second window.
Instants == {0, 4, 8, 56, 60, 64}

\* Line 97 and line 117.
window_size == 60
BurstSeconds == 5

Clients == {"c1", "c2"}

NoAnswer == [client |-> "", allowed |-> FALSE, status |-> 0, retry_after |-> 0,
             body |-> {}, headers |-> {}]

InitMiddleware ==
    /\ mw = [pc |-> "serving", now |-> 0,
             requests |-> [c \in Clients |-> <<>>],
             admitted |-> [c \in Clients |-> <<>>],
             last |-> NoAnswer]
    /\ IdleReviews
    /\ IdleRating
    /\ IdleLimiter
    /\ IdleCache
    /\ IdleFetch
    /\ IdleStream
    /\ IdleSweep
    /\ IdleDive
    /\ IdleComments
    /\ IdleWeb
    /\ IdleSite
    /\ IdleFiles
    /\ IdlePages
    /\ IdleDiscover
    /\ IdleGate
    /\ IdleAccumulate

OutsideMiddleware ==
    UNCHANGED <<reviewVars, ratingVars, limiterVars, cacheVars, fetchVars, streamVars,
                sweepVars, diveVars, commentVars,
                webVars,
                siteVars,
                diskVars,
                pageVars,
                discVars,
                gateVars,
                accumVars>>

\* time.time() moves on.
MwTick ==
    /\ mw.pc = "serving"
    /\ \E t \in Instants :
         /\ t > mw.now
         /\ mw' = [mw EXCEPT !.now = t, !.last = NoAnswer]
    /\ OutsideMiddleware

\* Lines 100-105: the timestamps newer than the window's cutoff.
CleanOldRequests(ts, current_time) ==
    SelectSeq(ts, LAMBDA t : t > current_time - window_size)

\* Line 118: the requests of the last 5 seconds.
BurstCount(ts, current_time) ==
    Len(SelectSeq(ts, LAMBDA t : t > current_time - BurstSeconds))

\* Line 119 with ">" for ">=".
BurstExceeded(burst_count) == burst_count > MwBurstLimit

\* Line 119: "if burst_count >= self.burst_limit"
BurstReached(burst_count) == burst_count >= MwBurstLimit

\* min(recent_requests)
RECURSIVE SeqMin(_)
SeqMin(ts) ==
    IF Len(ts) = 1 THEN ts[1] ELSE Min(ts[1], SeqMin(Tail(ts)))

Max(a, b) == IF a >= b THEN a ELSE b

\* Lines 107-129: is_allowed gives (allowed, retry_after) and the
\* client's new list.
IsAllowed(ts, current_time) ==
    LET recent_requests == CleanOldRequests(ts, current_time)
    IN  IF BurstReached(BurstCount(recent_requests, current_time))
        THEN [allowed |-> FALSE, retry_after |-> 5, requests |-> recent_requests]
        ELSE IF Len(recent_requests) >= MwRequestsPerMinute
        THEN LET oldest == IF recent_requests # <<>> THEN SeqMin(recent_requests)
                           ELSE current_time
             IN  [allowed |-> FALSE,
                  retry_after |-> Max(1, (oldest + window_size - current_time) + 1),
                  requests |-> recent_requests]
        ELSE [allowed |-> TRUE, retry_after |-> 0,
              requests |-> Append(recent_requests, current_time)]

\* Lines 139-165: dispatch of a request that is not a health check.
Dispatch ==
    /\ mw.pc = "serving"
    /\ \E client_ip \in Clients :
         LET r == IsAllowed(mw.requests[client_ip], mw.now)
         IN  mw' = [mw EXCEPT
                      !.requests[client_ip] = r.requests,
                      !.admitted[client_ip] = IF r.allowed THEN Append(@, mw.now) ELSE @,
                      !.last = IF r.allowed
                               THEN [client |-> client_ip, allowed |-> TRUE, status |-> 200,
                                     retry_after |-> 0, body |-> {}, headers |-> {}]
                               ELSE [client |-> client_ip, allowed |-> FALSE, status |-> 429,
                                     retry_after |-> r.retry_after,
                                     body |-> {"error", "retry_after", "message"},
                                     headers |-> {"Retry-After"}]]
    /\ OutsideMiddleware

NextMiddleware ==
    \/ MwTick
    \/ Dispatch

SpecMiddleware == InitMiddleware /\ [][NextMiddleware]_vars

\* The admissions of a client in the n seconds that end with its j-th.
AdmittedWithin(c, j, n) ==
    Cardinality({i \in 1..Len(mw.admitted[c]) :
                   /\ mw.admitted[c][i] > mw.admitted[c][j] - n
                   /\ mw.admitted[c][i] <= mw.admitted[c][j]})

\* C26: for every client the admissions within any 60 seconds are at most
\* requests_per_minute and within any 5 seconds at most burst_limit; a
\* request that is not admitted is answered 429 with error, retry_after
\* (at least 1) and message and a Retry-After header, and no timestamp is
\* added to the client's window.
C26_MiddlewareLimits ==
    /\ [](mw.pc # "off" =>
            /\ \A c \in Clients : \A j \in 1..Len(mw.admitted[c]) :
                  /\ AdmittedWithin(c, j, window_size) <= MwRequestsPerMinute
                  /\ AdmittedWithin(c, j, BurstSeconds) <= MwBurstLimit
            /\ (mw.last.client # "" /\ ~mw.last.allowed) =>
                  /\ mw.last.status = 429
                  /\ mw.last.retry_after >= 1
                  /\ mw.last.body = {"error", "retry_after", "message"}
                  /\ "Retry-After" \in mw.last.headers)
    /\ [][(mw.pc # "off" /\ mw'.last.client # "" /\ ~mw'.last.allowed) =>
            /\ mw'.admitted = mw.admitted
            /\ \A c \in Clients : Len(mw'.requests[c]) <= Len(mw.requests[c])
            /\ \A c \in Clients : \A i \in 1..Len(mw'.requests[c]) :
                  \E k \in 1..Len(mw.requests[c]) : mw'.requests[c][i] = mw.requests[c][k]]_vars

\* A client that was refused for the per-minute limit after three
\* admissions, while the other client was admitted.
C26_Witness ==
    /\ ~mw.last.allowed
    /\ mw.last.status = 429
    /\ mw.last.retry_after # 5
    /\ Len(mw.admitted[mw.last.client]) = MwRequestsPerMinute
    /\ \E c \in Clients : c # mw.last.client /\ mw.admitted[c] # <<>>

\* ---------------------------------------------------------------------
\* The website-crawl endpoint's request validation:
\* WebsiteCrawlRequest.validate_url and _is_internal_ip (main.py 191-246)
\* in front of crawl_website (main.py 640-658).  A url is kept as urlparse
\* splits it: its scheme and its host, the host being an IPv4 literal (four
\* octets) or a name.  No exception handler is registered in main.py, so a
\* ValueError of the validator is answered by the framework's request
\* validation error, status 422.
\* ---------------------------------------------------------------------

Ip(a, b, c, d) == [kind |-> "ipv4", octets |-> <<a, b, c, d>>, name |-> ""]
Name(n) == [kind |-> "name", octets |-> <<>>, name |-> n]

Schemes == {"http", "https", "ftp", "file", ""}

Hosts ==
    {Ip(10, 0, 0, 5), Ip(127, 0, 0, 1), Ip(192, 168, 1, 1), Ip(172, 16, 0, 1),
     Ip(172, 31, 255, 1), Ip(172, 32, 0, 1), Ip(169, 254, 1, 1), Ip(224, 0, 0, 1),
     Ip(240, 0, 0, 1), Ip(0, 0, 0, 0), Ip(8, 8, 8, 8), Ip(93, 184, 216, 34),
     Name("localhost"), Name("example.com"), Name("")}

InitWeb ==
    /\ web \in {[pc |-> "received", scheme |-> sc, host |-> h, status |-> 0,
                  text |-> "", outbound |-> FALSE] : sc \in Schemes, h \in Hosts}
    /\ IdleReviews
    /\ IdleRating
    /\ IdleLimiter
    /\ IdleCache
    /\ IdleFetch
    /\ IdleStream
    /\ IdleSweep
    /\ IdleDive
    /\ IdleComments
    /\ IdleMiddleware
    /\ IdleSite
    /\ IdleFiles
    /\ IdlePages
    /\ IdleDiscover
    /\ IdleGate
    /\ IdleAccumulate

OutsideWeb ==
    UNCHANGED <<reviewVars, ratingVars, limiterVars, cacheVars, fetchVars, streamVars,
                sweepVars, diveVars, commentVars, mwVars,
                siteVars,
                diskVars,
                pageVars,
                discVars,
                gateVars,
                accumVars>>

\* The properties of ipaddress.IPv4Address that line 198-204 reads.
IsLoopback(o) == o[1] = 127
IsLinkLocal(o) == o[1] = 169 /\ o[2] = 254
IsMulticast(o) == o[1] \in 224..239
IsReserved(o) == o[1] \in 240..255
IsPrivate(o) ==
    \/ o[1] \in {0, 10, 127}
    \/ o[1] = 169 /\ o[2] = 254
    \/ o[1] = 172 /\ o[2] \in 16..31
    \/ o[1] = 192 /\ o[2] = 168
    \/ o[1] = 192 /\ o[2] = 0 /\ o[3] \in {0, 2}
    \/ o[1] = 198 /\ o[2] \in {18, 19}
    \/ o[1] = 198 /\ o[2] = 51 /\ o[3] = 100
    \/ o[1] = 203 /\ o[2] = 0 /\ o[3] = 113
    \/ o[1] \in 240..255

\* Lines 191-209: _is_internal_ip(host)
IsInternalIp(h) ==
    IF h.kind = "ipv4"
    THEN \/ IsPrivate(h.octets)
         \/ IsLoopback(h.octets)
         \/ IsReserved(h.octets)
         \/ IsLinkLocal(h.octets)
         \/ IsMulticast(h.octets)
    ELSE h.name \in {"localhost", "localhost.localdomain", "127.0.0.1", "::1"}

\* Lines 235-243: host.startswith(pattern) for the listed prefixes.
MatchesInternalPattern(h) ==
    /\ h.kind = "ipv4"
    /\ \/ h.octets[1] \in {10, 0, 127}
       \/ h.octets[1] = 192 /\ h.octets[2] = 168
       \/ h.octets[1] = 172 /\ h.octets[2] \in 16..31
       \/ h.octets[1] = 169 /\ h.octets[2] = 254

\* Lines 218-245: validate_url gives the ValueError's text, or "" when the
\* url is accepted.
ValidateUrl(scheme, h) ==
    IF scheme \notin {"http", "https"} THEN "URL must use http or https scheme"
    ELSE IF h.kind = "name" /\ h.name = "" THEN "URL must have a valid hostname"
    ELSE IF IsInternalIp(h) \/ MatchesInternalPattern(h)
         THEN "URLs pointing to internal/private IP addresses are not allowed"
    ELSE ""

\* The request body is validated when the request arrives (line 641).
ReceiveWebsiteRequest ==
    /\ web.pc = "received"
    /\ LET error == ValidateUrl(web.scheme, web.host)
       IN  web' = IF error = ""
                  THEN [web EXCEPT !.pc = "crawl"]
                  ELSE [web EXCEPT !.pc = "responded", !.status = 422, !.text = error]
    /\ OutsideWeb

\* Lines 644-658: the crawler is run for an accepted request.
CrawlWebsiteEndpoint ==
    /\ web.pc = "crawl"
    /\ \E ok \in BOOLEAN :
         web' = [web EXCEPT !.pc = "responded", !.outbound = TRUE,
                            !.status = IF ok THEN 200 ELSE 500,
                            !.text = IF ok THEN "" ELSE "Failed to crawl website"]
    /\ OutsideWeb

NextWeb ==
    \/ ReceiveWebsiteRequest
    \/ CrawlWebsiteEndpoint

SpecWeb == InitWeb /\ [][NextWeb]_vars

\* The url has a scheme other than http/https, or its host is a loopback,
\* private, link-local, reserved or multicast address.
MustBeRejected(w) ==
    \/ w.scheme \notin {"http", "https"}
    \/ /\ w.host.kind = "ipv4"
       /\ \/ IsLoopback(w.host.octets) \/ IsPrivate(w.host.octets)
          \/ IsLinkLocal(w.host.octets) \/ IsReserved(w.host.octets)
          \/ IsMulticast(w.host.octets)

\* C27: a website-crawl request whose url has a scheme other than
\* http/https or whose host is a loopback, private, link-local, reserved or
\* multicast address is answered with HTTP 400 and the text "URLs pointing
\* to internal/private IP addresses are not allowed", and no outbound
\* request is made for it.
C27_InternalUrlRejected400 ==
    (web.pc \in {"crawl", "responded"} /\ MustBeRejected(web)) =>
      /\ web.pc = "responded"
      /\ web.status = 400
      /\ web.text = "URLs pointing to internal/private IP addresses are not allowed"
      /\ ~web.outbound

\* ---------------------------------------------------------------------
\* The website crawl: do_crawl of WebsiteCrawler.crawl_website
\* (websites.py 86-131) with _find_relevant_links (388-440).  A page that
\* is fetched answers with some list of hrefs or fails.
\* ---------------------------------------------------------------------

MaxPages == 3
MaxLinks == 2

\* The hrefs a page can hold, as absolute URLs: three pages of the start
\* URL's host (the root first), a page of another host, and a URL without a
\* host part.
RootUrl == "https://site/"
Hrefs == {RootUrl, "https://site/pricing", "https://site/blog", "https://other/x",
          "file:///etc/hosts"}

\* urlparse(href).netloc
Netloc(href) ==
    IF href \in {RootUrl, "https://site/pricing", "https://site/blog"} THEN "site"
    ELSE IF href = "https://other/x" THEN "other"
    ELSE ""

\* Lines 428-434: the href or the link text holds a priority keyword.
HasKeyword(href) == href = "https://site/pricing"

InitSite ==
    /\ site \in {[pc |-> "loop", max_pages |-> n, include_subpages |-> i,
                   base_domain |-> "site", visited |-> {}, to_visit |-> <<RootUrl>>,
                   fetched |-> <<>>]
                    : n \in 1..MaxPages, i \in BOOLEAN}
    /\ IdleReviews
    /\ IdleRating
    /\ IdleLimiter
    /\ IdleCache
    /\ IdleFetch
    /\ IdleStream
    /\ IdleSweep
    /\ IdleDive
    /\ IdleComments
    /\ IdleMiddleware
    /\ IdleWeb
    /\ IdleFiles
    /\ IdlePages
    /\ IdleDiscover
    /\ IdleGate
    /\ IdleAccumulate

OutsideSite ==
    UNCHANGED <<reviewVars, ratingVars, limiterVars, cacheVars, fetchVars, streamVars,
                sweepVars, diveVars, commentVars, mwVars, webVars,
                diskVars,
                pageVars,
                discVars,
                gateVars,
                accumVars>>

InSeq(x, q) == \E i \in 1..Len(q) : q[i] = x

\* Lines 406-440: _find_relevant_links over the hrefs of a page.
RECURSIVE FindRelevantLinks(_, _, _, _)
FindRelevantLinks(hrefs, base_domain, visited, relevant_links) ==
    IF hrefs = <<>> THEN relevant_links
    ELSE LET href == Head(hrefs)
             next ==
               IF \/ Netloc(href) # "" /\ Netloc(href) # base_domain
                  \/ href \in visited
                  \/ InSeq(href, relevant_links)
               THEN relevant_links
               ELSE IF HasKeyword(href) THEN <<href>> \o relevant_links
               ELSE Append(relevant_links, href)
         IN  FindRelevantLinks(Tail(hrefs), base_domain, visited, next)

\* Lines 89-123: one iteration of the while loop, and its end.
SiteIterate ==
    /\ site.pc = "loop"
    /\ IF site.to_visit = <<>> \/ Cardinality(site.visited) >= site.max_pages
       THEN site' = [site EXCEPT !.pc = "done"]
       ELSE LET current_url == Head(site.to_visit)
                popped == [site EXCEPT !.to_visit = Tail(@)]
            IN  IF current_url \in site.visited
                THEN site' = popped
                ELSE \E ok \in BOOLEAN, hrefs \in SeqsUpTo(Hrefs, MaxLinks) :
                       LET asked == [popped EXCEPT !.fetched = Append(@, current_url)]
                           visited == site.visited \cup {current_url}
                           links == FindRelevantLinks(hrefs, site.base_domain, visited, <<>>)
                       IN  IF ~ok
                           THEN /\ hrefs = <<>>
                                /\ site' = asked
                           ELSE site' = [asked EXCEPT
                                           !.visited = visited,
                                           !.to_visit =
                                              IF /\ site.include_subpages
                                                 /\ Cardinality(visited) < site.max_pages
                                              THEN @ \o Take(links, site.max_pages
                                                                     - Cardinality(visited))
                                              ELSE @]
    /\ OutsideSite

NextSite ==
    \/ SiteIterate

SpecSite == InitSite /\ [][NextSite]_vars

\* C28: crawl_website fetches at most max_pages pages (only the root when
\* include_subpages is false), only URLs of the start URL's host, and no
\* URL twice; it terminates (it is done or can take a step, and the
\* number of fetches is bounded).
C28_BoundedSameHostNoRepeat ==
    site.pc # "off" =>
      /\ Len(site.fetched) <= site.max_pages
      /\ ~site.include_subpages => \A i \in 1..Len(site.fetched) : site.fetched[i] = RootUrl
      /\ \A i \in 1..Len(site.fetched) : Netloc(site.fetched[i]) = site.base_domain
      /\ \A i, j \in 1..Len(site.fetched) : i # j => site.fetched[i] # site.fetched[j]
      /\ site.pc = "done" \/ ENABLED SiteIterate
      /\ Len(site.fetched) <= 1 + site.max_pages * site.max_pages

(***************************************************************************)
(* The persisted list caches: coolors.py (palettes), fontpair.py           *)
(* (pairings) and google_fonts.py (fonts).  A file is what a reader that   *)
(* opens it at this instant would get: whether it exists and the pieces    *)
(* of the JSON document written to it so far, each piece tagged with the   *)
(* number of the save that wrote it.                                       *)
(***************************************************************************)

\* Saves of one cache file that are explored.
MaxSaves == 2

\* Pieces in which json.dump's output reaches a file.
FileChunks == 2

Caches == {"palettes", "pairings", "fonts"}

\* The caches whose save goes through tempfile.NamedTemporaryFile and
\* os.replace: save_pairings_to_cache and save_fonts_to_cache.
TempCaches == {"pairings", "fonts"}

NoFile == [exists |-> FALSE, chunks |-> <<>>]

EmptyFile == [exists |-> TRUE, chunks |-> <<>>]

\* The whole document of save number v.
CompleteFile(v) == [exists |-> TRUE, chunks |-> [i \in 1..FileChunks |-> v]]

NothingSeen == [cache |-> "none", content |-> NoFile, saving |-> FALSE, save |-> 0]

InitFiles ==
    /\ disk = [pc |-> "on",
               file |-> [k \in Caches |-> CompleteFile(0)],
               temp |-> [k \in Caches |-> NoFile],
               saver |-> [k \in Caches |-> "idle"],
               saves |-> [k \in Caches |-> 0],
               seen |-> NothingSeen]
    /\ IdleReviews
    /\ IdleRating
    /\ IdleLimiter
    /\ IdleCache
    /\ IdleFetch
    /\ IdleStream
    /\ IdleSweep
    /\ IdleDive
    /\ IdleComments
    /\ IdleMiddleware
    /\ IdleWeb
    /\ IdleSite
    /\ IdlePages
    /\ IdleDiscover
    /\ IdleGate
    /\ IdleAccumulate

\* Saving and loading cache files leaves the rest of the service alone.
OutsideFiles ==
    UNCHANGED <<reviewVars, ratingVars, limiterVars, cacheVars, fetchVars, streamVars,
                sweepVars, diveVars, commentVars, mwVars, webVars, siteVars,
                pageVars,
                discVars,
                gateVars,
                accumVars>>

\* save_palettes_to_cache, `with open(PALETTE_CACHE_FILE, 'w')`: opening
\* the cache file itself for writing truncates it.
SavePalettesOpen ==
    /\ disk.pc = "on"
    /\ disk.saver["palettes"] = "idle"
    /\ disk.saves["palettes"] < MaxSaves
    /\ disk' = [disk EXCEPT !.saver["palettes"] = "open",
                            !.saves["palettes"] = @ + 1,
                            !.file["palettes"] = EmptyFile]
    /\ OutsideFiles

\* save_palettes_to_cache, json.dump(cache, f): the document reaches the
\* cache file piece by piece.
SavePalettesWrite ==
    /\ disk.pc = "on"
    /\ disk.saver["palettes"] = "open"
    /\ Len(disk.file["palettes"].chunks) < FileChunks
    /\ disk' = [disk EXCEPT !.file["palettes"].chunks =
                                Append(@, disk.saves["palettes"])]
    /\ OutsideFiles

\* save_palettes_to_cache: the with block ends once the document is out.
SavePalettesClose ==
    /\ disk.pc = "on"
    /\ disk.saver["palettes"] = "open"
    /\ Len(disk.file["palettes"].chunks) = FileChunks
    /\ disk' = [disk EXCEPT !.saver["palettes"] = "idle"]
    /\ OutsideFiles

\* save_pairings_to_cache and save_fonts_to_cache,
\* tempfile.NamedTemporaryFile('w', dir=CACHE_DIR, delete=False): a new,
\* empty file next to the cache file.
TempCreate ==
    \E k \in TempCaches :
        /\ disk.pc = "on"
        /\ disk.saver[k] = "idle"
        /\ disk.saves[k] < MaxSaves
        /\ disk' = [disk EXCEPT !.saver[k] = "temp",
                                !.saves[k] = @ + 1,
                                !.temp[k] = EmptyFile]
        /\ OutsideFiles

\* json.dump(cache, f) into the temporary file.
TempWrite ==
    \E k \in TempCaches :
        /\ disk.pc = "on"
        /\ disk.saver[k] = "temp"
        /\ Len(disk.temp[k].chunks) < FileChunks
        /\ disk' = [disk EXCEPT !.temp[k].chunks = Append(@, disk.saves[k])]
        /\ OutsideFiles

\* os.replace(temp_path, cache file), after the with block closed the
\* temporary file: the name changes hands in one step.
OsReplace ==
    \E k \in TempCaches :
        /\ disk.pc = "on"
        /\ disk.saver[k] = "temp"
        /\ Len(disk.temp[k].chunks) = FileChunks
        /\ disk' = [disk EXCEPT !.saver[k] = "idle",
                                !.file[k] = disk.temp[k],
                                !.temp[k] = NoFile]
        /\ OutsideFiles

\* load_cached_palettes, load_cached_pairings, load_cached_fonts in another
\* thread or process: exists(), open(..., 'r'), json.load.
LoadCached ==
    \E k \in Caches :
        /\ disk.pc = "on"
        /\ disk' = [disk EXCEPT !.seen = [cache |-> k,
                                          content |-> disk.file[k],
                                          saving |-> disk.saver[k] # "idle",
                                          save |-> disk.saves[k]]]
        /\ OutsideFiles

NextFiles ==
    \/ SavePalettesOpen
    \/ SavePalettesWrite
    \/ SavePalettesClose
    \/ TempCreate
    \/ TempWrite
    \/ OsReplace
    \/ LoadCached

SpecFiles == InitFiles /\ [][NextFiles]_vars

\* C29: a reader running while a list cache (palettes, pairings, fonts) is
\* being saved gets the complete previous file or the complete new file,
\* never a missing, empty or partly written one.
C29_SavesAreAtomic ==
    (disk.pc # "off" /\ disk.seen.saving) =>
        \/ disk.seen.content = CompleteFile(disk.seen.save - 1)
        \/ disk.seen.content = CompleteFile(disk.seen.save)

\* The awaits of acquire at which a task is inside asyncio.sleep.
Asleep == {"backoff_sleep", "global_sleep", "domain_sleep"}

\* C30: RateLimiter._lock is held only for constant-time work: no task is
\* inside asyncio.sleep (backoff or window) while it holds the lock, so a
\* task that sleeps for one origin never keeps a task for another origin
\* from passing the backoff check of acquire.
C30_NoSleepUnderLock ==
    /\ \A t \in Tasks : lpc[t] \in Asleep => lock # t
    /\ \A t, u \in Tasks :
         (/\ lpc[u] \in Asleep
          /\ lpc[t] = "backoff_lock"
          /\ url[t] # url[u]) => ENABLED CheckBackoff(t)

\* ---------------------------------------------------------------------
\* The throttle multiplier of scrape_reviews_streaming.
\* ---------------------------------------------------------------------

\* The step is a first fetch answered 429 with auto-throttle on.
ThrottleStep ==
    /\ stream.pc = "fetch"
    /\ stream.auto_throttle
    /\ stream'.pc = "retry"
    /\ stream'.last.first = 429
    /\ stream'.filter_idx = stream.filter_idx

\* The step leaves one filter for the next.
BoundaryStep ==
    /\ stream.pc \in {"fetch", "retry"}
    /\ stream'.pc = "fetch"
    /\ stream'.filter_idx = stream.filter_idx + 1

\* C31: the throttle multiplier starts at 1.0 and stays within [1.0, 4.0];
\* it changes only by doubling (4.0 at most) on a page answered 429 with
\* auto-throttle on, and by the factor 0.75 (1.0 at least) at the boundary
\* between two filters; after a single 429 in the first filter it is 2.0
\* until that filter ends and 1.5 when the second begins.
C31_ThrottleMultiplier ==
    /\ [](stream.pc # "off" =>
            /\ stream.current_delay_multiplier >= One
            /\ stream.current_delay_multiplier <= 4 * One
            /\ (/\ stream.pc = "fetch" /\ stream.filter_idx = 0
                /\ stream.page = 1 /\ stream.last = NoPage)
                  => stream.current_delay_multiplier = One)
    /\ [][stream.pc # "off" =>
            LET m == stream.current_delay_multiplier
                n == stream'.current_delay_multiplier
            IN  /\ ThrottleStep => n = (IF 2 * m < 4 * One THEN 2 * m ELSE 4 * One)
                /\ BoundaryStep => n = (IF 3 * m > 4 * One THEN (3 * m) \div 4 ELSE One)
                /\ n # m => (ThrottleStep \/ BoundaryStep)
                /\ (ThrottleStep /\ stream.filter_idx = 0 /\ m = One) => n = 2 * One
                /\ (BoundaryStep /\ stream.filter_idx = 0 /\ m = 2 * One)
                      => n = One + One \div 2]_vars

\* The second filter begins after a first filter in which one page was
\* answered 429: the multiplier is 1.5.
C31_Witness ==
    /\ stream.pc = "fetch"
    /\ stream.auto_throttle
    /\ stream.filter_idx = 1
    /\ stream.page = 1
    /\ stream.last = NoPage
    /\ stream.current_delay_multiplier = One + One \div 2

(***************************************************************************)
(* AppStoreBrowserCrawler._managed_page (crawlers/app_store_browser.py):   *)
(* _create_page under _page_lock, the body of the "async with" block, and  *)
(* BrowserPage.close in the finally clause.                                *)
(***************************************************************************)

\* Tasks that acquire pages.
NumWorkers == 2

\* Page acquisitions per task.
MaxAcquisitions == 2

Workers == 1..NumWorkers

NoWorker == 0

\* How an awaited call of the browser ends.
CallEnds == {"returns", "raises", "cancelled"}

\* How the body of the scoped block ends.
BodyEnds == {"completed", "raised", "cancelled"}

InitPages ==
    /\ managed = [pc |-> "on",
                  at |-> [w \in Workers |-> "outside"],
                  page_lock |-> NoWorker,
                  contexts |-> [w \in Workers |-> 0],
                  tabs |-> [w \in Workers |-> 0],
                  acquisitions |-> [w \in Workers |-> 0],
                  exit |-> [w \in Workers |-> "none"]]
    /\ IdleReviews
    /\ IdleLimiter
    /\ IdleCache
    /\ IdleFetch
    /\ IdleStream
    /\ IdleSweep
    /\ IdleDive
    /\ IdleComments
    /\ IdleMiddleware
    /\ IdleWeb
    /\ IdleSite
    /\ IdleFiles
    /\ IdleRating
    /\ IdleDiscover
    /\ IdleGate
    /\ IdleAccumulate

\* Acquiring pages leaves the rest of the service alone.
OutsidePages ==
    UNCHANGED <<reviewVars, ratingVars, limiterVars, cacheVars, fetchVars, streamVars, sweepVars, diveVars, commentVars, mwVars, webVars, siteVars, diskVars,
                discVars,
                gateVars,
                accumVars>>

\* The task leaves _managed_page: one more acquisition is over.
Leaves(m, w, how) ==
    [m EXCEPT !.at[w] = "outside", !.exit[w] = how, !.acquisitions[w] = @ + 1]

\* _create_page: "async with self._page_lock" and
\* "context = await self.browser.new_context(...)".
NewContext(w, e) ==
    /\ managed.pc = "on"
    /\ managed.at[w] = "outside"
    /\ managed.acquisitions[w] < MaxAcquisitions
    /\ managed.page_lock = NoWorker
    /\ managed' =
         IF e = "returns"
         THEN [managed EXCEPT !.at[w] = "new_page", !.page_lock = w,
                              !.contexts[w] = @ + 1]
         ELSE Leaves(managed, w, "new_context " \o e)
    /\ OutsidePages

\* _create_page: "page = await context.new_page()". When it does not
\* return, the exception leaves the lock's block and _create_page, and
\* _managed_page has not entered its try.
NewPage(w, e) ==
    /\ managed.pc = "on"
    /\ managed.at[w] = "new_page"
    /\ managed' =
         IF e = "returns"
         THEN [managed EXCEPT !.at[w] = "add_init_script", !.tabs[w] = @ + 1]
         ELSE [Leaves(managed, w, "new_page " \o e) EXCEPT !.page_lock = NoWorker]
    /\ OutsidePages

\* _create_page: "await page.add_init_script(...)" and the return of the
\* BrowserPage; the lock is left either way.
AddInitScript(w, e) ==
    /\ managed.pc = "on"
    /\ managed.at[w] = "add_init_script"
    /\ managed' =
         IF e = "returns"
         THEN [managed EXCEPT !.at[w] = "body", !.page_lock = NoWorker]
         ELSE [Leaves(managed, w, "add_init_script " \o e) EXCEPT !.page_lock = NoWorker]
    /\ OutsidePages

\* _managed_page: "yield browser_page" inside try; however the body ends,
\* the finally clause runs.
Body(w, e) ==
    /\ managed.pc = "on"
    /\ managed.at[w] = "body"
    /\ managed' = [managed EXCEPT !.at[w] = "page.close", !.exit[w] = "body " \o e]
    /\ OutsidePages

\* BrowserPage.close: "await self.page.close()"; an exception is logged
\* and the tab stays with its context.
ClosePage(w, e) ==
    /\ managed.pc = "on"
    /\ managed.at[w] = "page.close"
    /\ e \in {"returns", "raises"}
    /\ managed' = [managed EXCEPT !.at[w] = "context.close",
                                  !.tabs[w] = IF e = "returns" THEN @ - 1 ELSE @]
    /\ OutsidePages

\* BrowserPage.close: "await self.context.close()", which closes the
\* context and every tab still in it.
CloseContext(w) ==
    /\ managed.pc = "on"
    /\ managed.at[w] = "context.close"
    /\ managed' = [Leaves(managed, w, managed.exit[w]) EXCEPT
                     !.contexts[w] = @ - 1,
                     !.tabs[w] = IF @ > 0 THEN @ - 1 ELSE @]
    /\ OutsidePages

NextPages ==
    \/ \E w \in Workers, e \in CallEnds : NewContext(w, e)
    \/ \E w \in Workers, e \in CallEnds : NewPage(w, e)
    \/ \E w \in Workers, e \in CallEnds : AddInitScript(w, e)
    \/ \E w \in Workers, e \in BodyEnds : Body(w, e)
    \/ \E w \in Workers, e \in CallEnds : ClosePage(w, e)
    \/ \E w \in Workers : CloseContext(w)

SpecPages == InitPages /\ [][NextPages]_vars

\* C32: every context allocated for a page acquisition is closed, with its
\* tab, on every exit path (the body completing, raising or being
\* cancelled, and new_page or add_init_script failing after the context
\* was allocated): a task outside _managed_page has no open context.
C32_NoContextLeftOpen ==
    managed.pc # "off" =>
      \A w \in Workers :
        managed.at[w] = "outside" => (managed.contexts[w] = 0 /\ managed.tabs[w] = 0)

(***************************************************************************)
(* RedditCrawler.validate_subreddits and discover_related_subreddits       *)
(* (crawlers/reddit.py): each seed is validated; a valid seed's sidebar    *)
(* and wiki are searched for r/name mentions.                              *)
(***************************************************************************)

\* Seeds in a request.
MaxSeeds == 2

DiscoveredLimit == 10
RelatedLimit == 15

SeedNames == {"Python", "learnpython", "django"}

\* Twelve names no seed or denylist entry shares.
ManyNames == {"n01", "n02", "n03", "n04", "n05", "n06",
              "n07", "n08", "n09", "n10", "n11", "n12"}

\* What re.findall(r'r/([a-zA-Z0-9_]+)', text) finds in the two description
\* fields of an about answer; a failed request or an answer without data
\* adds nothing, like a text without mentions.
SidebarMentions == {{}, {"Python", "all", "django"}, {"python", "ALL", "flask"}, ManyNames}

\* The same for content_md of the wiki index.
WikiMentions == {{}, {"Mods", "learnpython", "rust"}}

\* str.lower() on the names in play.
Lower(name) ==
    CASE name = "Python" -> "python"
      [] name = "ALL" -> "all"
      [] name = "Mods" -> "mods"
      [] OTHER -> name

Denylist == {"all", "popular", "random", "mods", "mod", "announcements"}

\* "s not in known" comparing lower-cased names.
KnownFolded(s, subreddits) ==
    \E i \in 1..Len(subreddits) : Lower(subreddits[i]) = Lower(s)

\* "known = set(subreddits)" and "s not in known".
Known(s, subreddits) ==
    \E i \in 1..Len(subreddits) : subreddits[i] = s

\* list(names)[:n] of a set: Python fixes no order, so any n of them.
FirstOf(names, n) ==
    IF Cardinality(names) <= n THEN {names}
    ELSE {c \in SUBSET names : Cardinality(c) = n}

InitDiscover ==
    /\ disc \in {[pc |-> "validate", subreddits |-> ss, index |-> 1,
                  valid |-> <<>>, invalid |-> <<>>, discovered |-> {},
                  asked |-> {}, result |-> {}]
                   : ss \in SeqsUpTo(SeedNames, MaxSeeds) \ {<<>>}}
    /\ IdleReviews
    /\ IdleLimiter
    /\ IdleCache
    /\ IdleFetch
    /\ IdleStream
    /\ IdleSweep
    /\ IdleDive
    /\ IdleComments
    /\ IdleMiddleware
    /\ IdleWeb
    /\ IdleSite
    /\ IdleFiles
    /\ IdlePages
    /\ IdleRating
    /\ IdleGate
    /\ IdleAccumulate

\* Validating seeds leaves the rest of the service alone.
OutsideDiscover ==
    UNCHANGED <<reviewVars, ratingVars, limiterVars, cacheVars, fetchVars, streamVars,
                sweepVars, diveVars, commentVars, mwVars, webVars, siteVars,
                diskVars, pageVars,
                gateVars,
                accumVars>>

\* discover_related_subreddits(seed): the names mentioned, less the seed
\* itself and the denylist, compared in lower case; at most 15 of them.
DiscoverRelated(seed, sidebar, wiki) ==
    FirstOf({s \in sidebar \cup wiki : Lower(s) \notin ({Lower(seed)} \cup Denylist)},
            RelatedLimit)

\* validate_subreddits, one turn of the loop: validate_subreddit and, for a
\* valid seed, discover_related_subreddits.
ValidateSeed ==
    /\ disc.pc = "validate"
    /\ disc.index <= Len(disc.subreddits)
    /\ LET seed == disc.subreddits[disc.index] IN
       \E ok \in BOOLEAN, sidebar \in SidebarMentions, wiki \in WikiMentions :
         IF ok
         THEN \E related \in DiscoverRelated(seed, sidebar, wiki) :
                disc' = [disc EXCEPT !.index = @ + 1,
                                     !.valid = Append(@, seed),
                                     !.discovered = @ \cup related,
                                     !.asked = @ \cup {seed}]
         ELSE disc' = [disc EXCEPT !.index = @ + 1,
                                   !.invalid = Append(@, seed),
                                   !.asked = @ \cup {seed}]
    /\ OutsideDiscover

\* validate_subreddits after the loop: the known names are removed and at
\* most 10 are returned.
ReturnDiscovered ==
    /\ disc.pc = "validate"
    /\ disc.index > Len(disc.subreddits)
    /\ \E result \in FirstOf({s \in disc.discovered : ~Known(s, disc.subreddits)},
                             DiscoveredLimit) :
         disc' = [disc EXCEPT !.pc = "done", !.result = result]
    /\ OutsideDiscover

NextDiscover ==
    \/ ValidateSeed
    \/ ReturnDiscovered

SpecDiscover == InitDiscover /\ [][NextDiscover]_vars

\* C33: validate_subreddits returns at most 10 discovered names; none is a
\* denylisted name or names a requested seed, names compared without
\* regard to case; only the seeds are asked about, never a discovered name.
C33_DiscoveredBoundedAndNew ==
    disc.pc = "done" =>
      /\ Cardinality(disc.result) <= DiscoveredLimit
      /\ \A s \in disc.result :
           /\ Lower(s) \notin Denylist
           /\ ~KnownFolded(s, disc.subreddits)
      /\ \A s \in disc.asked : Known(s, disc.subreddits)

(***************************************************************************)
(* RedditCrawler._fetch_with_rate_limit under the search loop of           *)
(* crawl_deep_dive (crawlers/reddit.py): one logical request per           *)
(* (community, topic) pair.                                                *)
(***************************************************************************)

\* (community, topic) pairs of the sweep.
MaxPairs == 4

\* How self.fetch_json(url, ...) ends: with a document, with nothing, with
\* an exception whose text carries the 429 of the answer, or with another
\* exception.
FetchJsonEnds == {"data", "nothing", "raises 429", "raises other"}

NoRequest == [attempts |-> 0, gates |-> 0, long_sleeps |-> 0, first |-> "none",
              retry_on_429 |-> TRUE]

InitGate ==
    /\ gate = [pc |-> "gate", pair |-> 1, request |-> NoRequest, results |-> <<>>]
    /\ IdleReviews
    /\ IdleLimiter
    /\ IdleCache
    /\ IdleFetch
    /\ IdleStream
    /\ IdleSweep
    /\ IdleDive
    /\ IdleComments
    /\ IdleMiddleware
    /\ IdleWeb
    /\ IdleSite
    /\ IdleFiles
    /\ IdlePages
    /\ IdleDiscover
    /\ IdleRating
    /\ IdleAccumulate

\* The gated requests leave the rest of the service alone.
OutsideGate ==
    UNCHANGED <<reviewVars, ratingVars, limiterVars, cacheVars, fetchVars, streamVars,
                sweepVars, diveVars, commentVars, mwVars, webVars, siteVars,
                diskVars, pageVars, discVars,
                accumVars>>

\* "if "429" in error_str and retry_on_429" with the flag ignored.
RetriesAlways(e, retry_on_429) == e = "raises 429"

\* "if "429" in error_str and retry_on_429"
Retries(e, retry_on_429) == e = "raises 429" /\ retry_on_429

\* _fetch_with_rate_limit: "await asyncio.sleep(1.5)".
GateSleep ==
    /\ gate.pc = "gate"
    /\ gate.pair <= MaxPairs
    /\ gate' = [gate EXCEPT !.pc = "fetch", !.request.gates = @ + 1]
    /\ OutsideGate

\* The search loop: whatever the request came to, the next pair is next.
NextPair(g, e) ==
    [g EXCEPT !.results = Append(@, [ends |-> e, attempts |-> g.request.attempts,
                                     gates |-> g.request.gates,
                                     long_sleeps |-> g.request.long_sleeps,
                                     first |-> g.request.first]),
              !.request = NoRequest,
              !.pair = @ + 1,
              !.pc = IF g.pair = MaxPairs THEN "done" ELSE "gate"]

\* _fetch_with_rate_limit: "data = await self.fetch_json(...)". A 429 with
\* the retry allowed leads to the long sleep; every other end goes back to
\* the search loop ("if not data: continue", the posts, or "except
\* Exception ... continue").
FetchJson(e) ==
    /\ gate.pc = "fetch"
    /\ LET tried == [gate EXCEPT !.request.attempts = @ + 1,
                                 !.request.first = IF @ = "none" THEN e ELSE @]
       IN  gate' = IF Retries(e, gate.request.retry_on_429)
                   THEN [tried EXCEPT !.pc = "sleep60"]
                   ELSE NextPair(tried, e)
    /\ OutsideGate

\* _fetch_with_rate_limit: "await asyncio.sleep(60)" and the call of itself
\* with retry_on_429=False.
Sleep60 ==
    /\ gate.pc = "sleep60"
    /\ gate' = [gate EXCEPT !.pc = "gate", !.request.long_sleeps = @ + 1,
                            !.request.retry_on_429 = FALSE]
    /\ OutsideGate

NextGate ==
    \/ GateSleep
    \/ \E e \in FetchJsonEnds : FetchJson(e)
    \/ Sleep60

SpecGate == InitGate /\ [][NextGate]_vars

\* C34: each logical request of the deep dive is attempted at most twice;
\* every attempt follows a 1.5 s gate; a 429 on the first attempt is
\* followed by one retry after one 60 s sleep; a 429 on the retry ends the
\* request, and the sweep goes on with the next pair until all pairs are
\* done.
C34_AtMostTwoAttempts ==
    gate.pc # "off" =>
      /\ gate.request.attempts <= 2
      /\ gate.pc = "fetch" => gate.request.gates = gate.request.attempts + 1
      /\ gate.pc # "fetch" => gate.request.gates = gate.request.attempts
      /\ gate.pc = "sleep60" => (gate.request.attempts = 1 /\ gate.request.long_sleeps = 0)
      /\ Len(gate.results) = gate.pair - 1
      /\ gate.pc = "done" <=> gate.pair = MaxPairs + 1
      /\ gate.pc = "done" \/ ENABLED NextGate
      /\ \A i \in 1..Len(gate.results) :
           LET r == gate.results[i] IN
             /\ r.gates = r.attempts
             /\ r.attempts = (IF r.first = "raises 429" THEN 2 ELSE 1)
             /\ r.long_sleeps = r.attempts - 1

\* A request answered 429 twice was given up after its second attempt and
\* the pair after it was served.
C34_Witness ==
    /\ gate.pc = "done"
    /\ \E i \in 1..(MaxPairs - 1) :
         /\ gate.results[i].first = "raises 429"
         /\ gate.results[i].ends = "raises 429"
         /\ gate.results[i].attempts = 2
         /\ gate.results[i + 1].ends = "data"

\* ---------------------------------------------------------------------
\* The order of the website crawl's queue.
\* ---------------------------------------------------------------------

\* C35: a same-host link with a priority keyword that is discovered on a
\* parsed page goes to the front of the crawl queue, ahead of every
\* non-priority link that was waiting in the queue when the page was
\* parsed, and so is fetched before them.
C35_PriorityLinkAheadOfWaiting ==
    [][(site.pc = "loop" /\ site'.pc = "loop" /\ site.to_visit # <<>>) =>
         \A i \in Len(site.to_visit)..Len(site'.to_visit) :
           \A j \in 1..(Len(site.to_visit) - 1) :
             (/\ HasKeyword(site'.to_visit[i])
              /\ Netloc(site'.to_visit[i]) = site.base_domain
              /\ ~HasKeyword(site'.to_visit[j]))
               => \E k \in 1..(j - 1) : site'.to_visit[k] = site'.to_visit[i]]_vars

\* ---------------------------------------------------------------------
\* The concurrency slots of RateLimiter under cancellation.
\* ---------------------------------------------------------------------

\* Where a task rightly holds a slot: in acquire past the semaphore, or
\* back from acquire and not yet at release().
HoldingSlot == {"window_lock", "global_sleep", "domain_sleep", "crawling"}

\* C36: a caller cancelled inside acquire after it took a concurrency slot
\* gives the slot back: the slots taken are exactly those of the callers
\* that are past the semaphore in acquire or have returned from it and
\* not yet called release, so cancellations never shrink the concurrency.
C36_CancelledCallerReturnsSlot ==
    max_concurrent - semaphore = Cardinality({t \in Tasks : lpc[t] \in HoldingSlot})

\* ---------------------------------------------------------------------
\* RateLimiter.acquire always returns: no task is cancelled, the clock
\* advances, asyncio's lock and semaphore serve their waiters in turn,
\* sleeps end and every admitted task gets to release().
\* ---------------------------------------------------------------------

NextLimiterLive ==
    \/ Tick
    \/ \E t \in Tasks : CrawlPage(t)
    \/ \E t \in Tasks : CheckBackoff(t)
    \/ \E t \in Tasks : BackoffWake(t)
    \/ \E t \in Tasks : TakeSlot(t)
    \/ \E t \in Tasks : EnterWindow(t)
    \/ \E t \in Tasks : WakeGlobal(t)
    \/ \E t \in Tasks : WakeDomain(t)
    \/ \E t \in Tasks : CrawlSucceeds(t)
    \/ \E t \in Tasks : CrawlFails(t)
    \/ \E t \in Tasks : CrawlRaises(t)
    \/ \E d \in Domains : Backoff(d)

\* What a task does once it has called acquire, up to the end of its crawl.
\* At each position of the task only one of these can be taken.
TaskStep(t) ==
    \/ CheckBackoff(t)
    \/ TakeSlot(t)
    \/ EnterWindow(t)
    \/ BackoffWake(t)
    \/ WakeGlobal(t)
    \/ WakeDomain(t)
    \/ CrawlSucceeds(t)
    \/ CrawlFails(t)
    \/ CrawlRaises(t)

FairLimiter ==
    /\ WF_vars(Tick)
    /\ \A t \in Tasks : SF_vars(TaskStep(t))

SpecLimiterLive == InitLimiter /\ [][NextLimiterLive]_vars /\ FairLimiter

\* The awaits of acquire.
InAcquire == {"backoff_lock", "backoff_sleep", "semaphore", "window_lock",
              "global_sleep", "domain_sleep"}

\* The last instant of the explored clock.
ClockEnd == MaxTicks * TickSeconds

\* Some task can take its next step in acquire or end its crawl.
SomeTaskProceeds ==
    \E t \in Tasks :
        \/ ENABLED CheckBackoff(t)
        \/ ENABLED TakeSlot(t)
        \/ ENABLED EnterWindow(t)
        \/ lpc[t] = "backoff_sleep" /\ now >= wake[t]
        \/ lpc[t] \in {"global_sleep", "domain_sleep"} /\ now > wake[t]
        \/ lpc[t] = "crawling"

EventsOf(type) ==
    {i \in 1..Len(stream.events) : stream.events[i].type = type}

FilterEventsOf(type, k) ==
    {i \in EventsOf(type) : stream.events[i].filter = k}

BreakEvents == {"filterTargetReached", "filterEarlyStop", "filterSkipped"}

BreakEventsOf(k) ==
    {i \in 1..Len(stream.events) :
        stream.events[i].type \in BreakEvents /\ stream.events[i].filter = k}

\* The filters left so far.
FiltersLeft ==
    IF stream.pc \in {"fetch", "retry"} THEN stream.filter_idx ELSE Len(stream.filters)

\* C38: the event stream begins with its only start and, once the run is
\* over, ends with its only complete; it holds one filterComplete per
\* filter, in filter order, and one filterCooldown right after each but the
\* last; each filter has at most one of filterTargetReached,
\* filterEarlyStop and filterSkipped, between the previous filter's events
\* and its own filterComplete; totalUnique never decreases.
C38_EventStreamShape ==
    /\ [](stream.pc # "off" =>
            /\ EventsOf("start") = {1}
            /\ EventsOf("complete") =
                 (IF stream.pc \in {"fetch", "retry"} THEN {} ELSE {Len(stream.events)})
            /\ \A k \in 0..(Len(stream.filters) - 1) :
                 /\ Cardinality(FilterEventsOf("filterComplete", k))
                      = (IF k < FiltersLeft THEN 1 ELSE 0)
                 /\ Cardinality(FilterEventsOf("filterCooldown", k))
                      = (IF k < FiltersLeft /\ k < Len(stream.filters) - 1 THEN 1 ELSE 0)
                 /\ Cardinality(BreakEventsOf(k)) <= 1
                 /\ \A c \in FilterEventsOf("filterComplete", k) :
                      /\ \A b \in BreakEventsOf(k) : b = c - 1
                      /\ \A d \in FilterEventsOf("filterCooldown", k) : d = c + 1
                      /\ \A j \in 1..(c - 1) :
                           stream.events[j].type = "start" \/ stream.events[j].filter <= k
                      /\ \A j \in (c + 1)..Len(stream.events) :
                           stream.events[j].filter >= k
                 /\ k >= FiltersLeft => BreakEventsOf(k) = {})
    /\ [][stream.pc # "off" => stream'.total_unique >= stream.total_unique]_vars

\* ---------------------------------------------------------------------
\* The rating filter in the browser collector's merge step.
\* ---------------------------------------------------------------------

\* The rating passes the bounds that are set.
WithinRequested(rating, min_rating, max_rating) ==
    /\ rating # NoneV
    /\ Truthy(min_rating) => rating >= min_rating
    /\ Truthy(max_rating) => rating <= max_rating

\* C39: with min_rating or max_rating set, a review whose rating is null is
\* just not admitted: every admitted review has a rating within the
\* requested range, and an extraction ends the locale's scrolling only when
\* the accumulator is full, the 25 scrolls are used up or five scrolls in a
\* row brought nothing new, so the reviews and scrolls after a null rating
\* are still processed.
C39_NullRatingOnlySkipped ==
    /\ []((pc \in {"scroll", "country"}
            /\ (Truthy(crawl.min_rating) \/ Truthy(crawl.max_rating))) =>
            \A i \in 1..Len(Values(crawl.all_reviews)) :
               WithinRequested(Values(crawl.all_reviews)[i].rating,
                               crawl.min_rating, crawl.max_rating))
    /\ [][(/\ pc = "scroll"
           /\ pc' = "country"
           /\ Truthy(crawl.min_rating) \/ Truthy(crawl.max_rating)) =>
            \/ Len(crawl.all_reviews) >= crawl.max_reviews
            \/ crawl.scroll_attempt + 1 >= ScrollAttempts
            \/ /\ crawl.no_new_reviews_count + 1 >= NoNewLimit
               /\ crawl'.all_reviews = crawl.all_reviews]_vars

(***************************************************************************)
(* Accumulating saves of the font-pairing cache (crawlers/fontpair.py).    *)
(* get_font_pairings hands save_pairings_to_cache to asyncio.to_thread, so *)
(* the saves of two requests run in two threads.  A pairing is its         *)
(* (heading_font, body_font) key.                                          *)
(***************************************************************************)

\* Distinct pairing keys.
MaxItems == 3

\* Longest scraped list and longest previous cache.
MaxInput == 2

\* Requests that found the cache expired and scraped.
NumSavers == 2

Items == 1..MaxItems

Savers == 1..NumSavers

ItemsOf(q) == { q[i] : i \in 1..Len(q) }

\* Lists in which no key occurs twice, as every saved cache is.
Deduplicated(q) == \A i, j \in 1..Len(q) : i # j => q[i] # q[j]


\* save_pairings_to_cache, the accumulate branch: a new pairing is appended
\* unless its key is already there.
RECURSIVE Accumulate(_, _)
Accumulate(existing, pairings) ==
    IF pairings = <<>> THEN existing
    ELSE Accumulate(IF Head(pairings) \in ItemsOf(existing)
                    THEN existing
                    ELSE Append(existing, Head(pairings)),
                    Tail(pairings))

\* get_font_pairings saves only "if new_pairings and len(new_pairings) > 0".
InitAccumulate ==
    /\ \E previous \in { q \in SeqsUpTo(Items, MaxInput) : Deduplicated(q) },
          inputs \in [Savers -> SeqsUpTo(Items, MaxInput) \ {<<>>}] :
         accum = [pc |-> "on",
                  previous |-> previous,
                  file |-> previous,
                  saver |-> [s \in Savers |->
                               [pc |-> "load", pairings |-> inputs[s],
                                existing |-> <<>>, temp |-> <<>>]]]
    /\ IdleReviews
    /\ IdleLimiter
    /\ IdleCache
    /\ IdleFetch
    /\ IdleStream
    /\ IdleSweep
    /\ IdleDive
    /\ IdleComments
    /\ IdleMiddleware
    /\ IdleWeb
    /\ IdleSite
    /\ IdleFiles
    /\ IdlePages
    /\ IdleDiscover
    /\ IdleGate
    /\ IdleRating

\* The saves leave the rest of the service alone.
OutsideAccumulate ==
    UNCHANGED <<reviewVars, ratingVars, limiterVars, cacheVars, fetchVars, streamVars,
                sweepVars, diveVars, commentVars, mwVars, webVars, siteVars,
                diskVars, pageVars, discVars, gateVars>>

\* "existing = load_cached_pairings(check_expiry=False) or []": what the
\* cache file holds when this thread reads it.
LoadExisting(s) ==
    /\ accum.pc = "on"
    /\ accum.saver[s].pc = "load"
    /\ accum' = [accum EXCEPT !.saver[s].pc = "dump",
                              !.saver[s].existing = accum.file]
    /\ OutsideAccumulate

\* The merge loop and json.dump(cache, f) into the thread's own temporary
\* file.
DumpTemp(s) ==
    /\ accum.pc = "on"
    /\ accum.saver[s].pc = "dump"
    /\ accum' = [accum EXCEPT !.saver[s].pc = "replace",
                              !.saver[s].temp =
                                  Accumulate(accum.saver[s].existing,
                                             accum.saver[s].pairings)]
    /\ OutsideAccumulate

\* os.replace(temp_path, FONTPAIR_CACHE_FILE)
ReplaceCache(s) ==
    /\ accum.pc = "on"
    /\ accum.saver[s].pc = "replace"
    /\ accum' = [accum EXCEPT !.saver[s].pc = "done",
                              !.file = accum.saver[s].temp]
    /\ OutsideAccumulate

NextAccumulate ==
    \/ \E s \in Savers : LoadExisting(s)
    \/ \E s \in Savers : DumpTemp(s)
    \/ \E s \in Savers : ReplaceCache(s)

SpecAccumulate == InitAccumulate /\ [][NextAccumulate]_vars

\* C40: when two accumulate saves of the pairing cache run concurrently,
\* the cache file after both complete holds every item of the previous
\* cache and of both inputs, each once.
C40_NoItemLost ==
    (accum.pc = "on" /\ \A s \in Savers : accum.saver[s].pc = "done") =>
        /\ Deduplicated(accum.file)
        /\ ItemsOf(accum.file) =
             ItemsOf(accum.previous)
               \cup UNION { ItemsOf(accum.saver[s].pairings) : s \in Savers }

====
